---- MODULE Spec2Model ----
(***************************************************************************)
(* The ehome solar dashboard: the energy data service                      *)
(* (src/src/services/energyData.ts) and the page that polls it             *)
(* (src/src/pages/Index.tsx), with the earlier revisions kept under        *)
(* src/unnamed where a property speaks of them.                            *)
(*                                                                         *)
(* Numbers.  JavaScript numbers are modelled as exact rationals [n, d]     *)
(* in lowest terms, d > 0, extended with the three IEEE specials the code  *)
(* can produce: d = 0 and n = 1 is +Infinity, n = -1 is -Infinity, n = 0   *)
(* is NaN.  Rounding error of binary floating point is not modelled.       *)
(*                                                                         *)
(* Strings are sequences of one-character strings, so that parseFloat,     *)
(* split and Number are computed character by character.                   *)
(*                                                                         *)
(* Time.  Timestamps are milliseconds counted from 2025-01-01T00:00:00     *)
(* local time instead of 1970, so that they fit the checker's integers;    *)
(* local time has no zone offset and no daylight saving.                   *)
(***************************************************************************)
EXTENDS Integers, Sequences, FiniteSets, TLC

----------------------------------------------------------------------------
(* JavaScript numbers *)

RECURSIVE GCD(_, _)
GCD(a, b) == IF b = 0 THEN a ELSE GCD(b, a % b)

IAbs(i) == IF i < 0 THEN -i ELSE i

Rat(n, d) ==
  LET g == GCD(IAbs(n), d)
  IN  [n |-> n \div g, d |-> d \div g]

Int2Num(i) == [n |-> i, d |-> 1]
PosInf == [n |-> 1, d |-> 0]
NegInf == [n |-> -1, d |-> 0]
NaN == [n |-> 0, d |-> 0]
Zero == Int2Num(0)

IsFinite(x) == x.d > 0
isNaN(x) == x = NaN
Sign(x) == IF x.n > 0 THEN 1 ELSE IF x.n < 0 THEN -1 ELSE 0

LCM(a, b) == (a \div GCD(a, b)) * b

\* x < y and x > y of JavaScript: false as soon as one side is NaN
Lt(x, y) ==
  IF isNaN(x) \/ isNaN(y) THEN FALSE
  ELSE IF ~IsFinite(x) \/ ~IsFinite(y)
       THEN (IF IsFinite(x) THEN 0 ELSE x.n) < (IF IsFinite(y) THEN 0 ELSE y.n)
            /\ x # y
  ELSE LET l == LCM(x.d, y.d) IN x.n * (l \div x.d) < y.n * (l \div y.d)

Gt(x, y) == Lt(y, x)
Le(x, y) == Lt(x, y) \/ (x = y /\ ~isNaN(x))
Ge(x, y) == Le(y, x)

Neg(x) == [n |-> -x.n, d |-> x.d]

Plus(x, y) ==
  IF isNaN(x) \/ isNaN(y) THEN NaN
  ELSE IF ~IsFinite(x) /\ ~IsFinite(y) THEN (IF x = y THEN x ELSE NaN)
  ELSE IF ~IsFinite(x) THEN x
  ELSE IF ~IsFinite(y) THEN y
  ELSE LET l == LCM(x.d, y.d)
       IN  Rat(x.n * (l \div x.d) + y.n * (l \div y.d), l)

Minus(x, y) == Plus(x, Neg(y))

Times(x, y) ==
  IF isNaN(x) \/ isNaN(y) THEN NaN
  ELSE IF ~IsFinite(x) \/ ~IsFinite(y)
       THEN (IF Sign(x) * Sign(y) = 0 THEN NaN
             ELSE IF Sign(x) * Sign(y) > 0 THEN PosInf ELSE NegInf)
  ELSE LET g1 == GCD(IAbs(x.n), y.d)
           g2 == GCD(IAbs(y.n), x.d)
       IN  [n |-> (x.n \div g1) * (y.n \div g2), d |-> (x.d \div g2) * (y.d \div g1)]

\* x / y for a finite non-zero y (the only divisors of the code are constants)
DividedBy(x, y) ==
  Times(x, IF y.n < 0 THEN [n |-> -y.d, d |-> -y.n] ELSE [n |-> y.d, d |-> y.n])

MathAbs(x) == [n |-> IAbs(x.n), d |-> x.d]

\* Math.min and Math.max return NaN when an argument is NaN
MathMin(x, y) == IF isNaN(x) \/ isNaN(y) THEN NaN ELSE IF Lt(y, x) THEN y ELSE x
MathMax(x, y) == IF isNaN(x) \/ isNaN(y) THEN NaN ELSE IF Gt(y, x) THEN y ELSE x

\* floor(n / d) for d > 0, also for negative n
FloorDiv(n, d) == IF n >= 0 THEN n \div d ELSE -((-n + d - 1) \div d)

\* Math.round: floor(x + 0.5); the specials round to themselves
MathRound(x) ==
  IF ~IsFinite(x) THEN x ELSE Int2Num(FloorDiv(2 * x.n + x.d, 2 * x.d))

----------------------------------------------------------------------------
(* Strings and the JavaScript conversions the service applies to them *)

Digits == <<"0", "1", "2", "3", "4", "5", "6", "7", "8", "9">>

IsDigit(c) == \E i \in 1..10 : Digits[i] = c

DigitVal(c) == (CHOOSE i \in 1..10 : Digits[i] = c) - 1

\* the first index at or after i whose character is not a digit
RECURSIVE ScanDigits(_, _)
ScanDigits(s, i) ==
  IF i <= Len(s) /\ IsDigit(s[i]) THEN ScanDigits(s, i + 1) ELSE i

\* the first index at or after i whose character is not a blank
RECURSIVE SkipBlanks(_, _)
SkipBlanks(s, i) ==
  IF i <= Len(s) /\ s[i] = " " THEN SkipBlanks(s, i + 1) ELSE i

\* the value of the digit string s[i..j-1]
RECURSIVE DigitsVal(_, _, _)
DigitsVal(s, i, j) ==
  IF j <= i THEN 0 ELSE DigitsVal(s, i, j - 1) * 10 + DigitVal(s[j - 1])

RECURSIVE Pow10(_)
Pow10(k) == IF k = 0 THEN 1 ELSE 10 * Pow10(k - 1)

InfinityWord == <<"I", "n", "f", "i", "n", "i", "t", "y">>

\* parseFloat: leading blanks, a sign, then the longest prefix that is
\* "Infinity" or a decimal literal (digits, '.', digits; no exponent in the
\* modelled alphabet); whatever follows is ignored; NaN without such a prefix.
\* i1 is where the digits start, intEnd where the integer part ends,
\* fracEnd where the fraction ends
parseFloat(s) ==
  LET literal(neg, i1, intEnd, fracEnd) ==
        LET k == IF fracEnd > intEnd THEN fracEnd - (intEnd + 1) ELSE 0
            mag == DigitsVal(s, i1, intEnd) * Pow10(k) + DigitsVal(s, intEnd + 1, fracEnd)
        IN  IF i1 + 7 <= Len(s) /\ SubSeq(s, i1, i1 + 7) = InfinityWord
            THEN (IF neg THEN NegInf ELSE PosInf)
            ELSE IF intEnd = i1 /\ k = 0 THEN NaN
            ELSE Rat(IF neg THEN -mag ELSE mag, Pow10(k))
      fraction(neg, i1, intEnd) ==
        literal(neg, i1, intEnd,
                IF intEnd <= Len(s) /\ s[intEnd] = "." THEN ScanDigits(s, intEnd + 1)
                ELSE intEnd)
      digits(neg, i1) == fraction(neg, i1, ScanDigits(s, i1))
      sign(i0) ==
        digits(i0 <= Len(s) /\ s[i0] = "-",
               IF i0 <= Len(s) /\ s[i0] \in {"-", "+"} THEN i0 + 1 ELSE i0)
  IN  sign(SkipBlanks(s, 1))

\* the whole of s is a number: a signed decimal literal or an infinity
IsNumberText(s) ==
  \/ s \in {InfinityWord, <<"-">> \o InfinityWord}
  \/ LET ends(i1, intEnd, fracEnd) ==
           fracEnd > Len(s) /\ (intEnd > i1 \/ fracEnd > intEnd + 1)
         point(i1, intEnd) ==
           ends(i1, intEnd,
                IF intEnd <= Len(s) /\ s[intEnd] = "." THEN ScanDigits(s, intEnd + 1)
                ELSE intEnd)
         digits(i1) == point(i1, ScanDigits(s, i1))
     IN  digits(IF s # <<>> /\ s[1] \in {"-", "+"} THEN 2 ELSE 1)

\* Number(s) on the pieces of a date or time string: the whole piece must be
\* digits (between blanks); the empty piece is 0; anything else is NaN
Number(s) ==
  LET piece(i0, e) ==
        IF SkipBlanks(s, e) <= Len(s) THEN NaN
        ELSE IF e = i0 THEN Zero
        ELSE Int2Num(DigitsVal(s, i0, e))
      from(i0) == piece(i0, ScanDigits(s, i0))
  IN  from(SkipBlanks(s, 1))

\* s.split(sep) for a one-character separator
RECURSIVE SplitFrom(_, _, _, _)
SplitFrom(s, sep, i, cur) ==
  IF i > Len(s) THEN <<cur>>
  ELSE IF s[i] = sep THEN <<cur>> \o SplitFrom(s, sep, i + 1, <<>>)
  ELSE SplitFrom(s, sep, i + 1, Append(cur, s[i]))

split(s, sep) == SplitFrom(s, sep, 1, <<>>)

\* String(n) for an integer n >= 0, and padStart(2, '0') of it
RECURSIVE NatStr(_)
NatStr(n) == IF n < 10 THEN <<Digits[n + 1]>> ELSE Append(NatStr(n \div 10), Digits[(n % 10) + 1])

PadStart2(s) == IF Len(s) < 2 THEN <<"0">> \o s ELSE s

\* x.toFixed(2) of the number whose hundredths, rounded, are c
toFixed2(c) ==
  LET a == IAbs(c)
  IN  (IF c < 0 THEN <<"-">> ELSE <<>>) \o NatStr(a \div 100) \o <<".">>
      \o PadStart2(NatStr(a % 100))

----------------------------------------------------------------------------
(* JSON values as the service reads them *)

\* the array of the n elements f(0), .., f(n - 1), as a loop of push() builds it
ArrayOf(n, f(_)) == SubSeq([k \in 1..n |-> f(k - 1)], 1, n)

JUndef == [t |-> "undef", v |-> <<>>]
JNull == [t |-> "null", v |-> <<>>]
JStr(s) == [t |-> "str", v |-> s]
JNum(k) == [t |-> "num", v |-> <<k>>]
JArr(a) == [t |-> "arr", v |-> a]
JObj(r) == [t |-> "obj", v |-> r]

\* !x of JavaScript
Falsy(j) ==
  \/ j.t \in {"undef", "null"}
  \/ j.t = "str" /\ j.v = <<>>
  \/ j.t = "num" /\ j.v[1] = 0

\* Array.isArray(x)
IsArray(j) == j.t = "arr"

\* x[i] throws a TypeError exactly when x is undefined or null
Nullish(j) == j.t \in {"undef", "null"}

\* a[i] (zero-based) of an array; undefined past its end
At(j, i) == IF j.t = "arr" /\ i >= 0 /\ i < Len(j.v) THEN j.v[i + 1] ELSE JUndef

\* o.key of an object; undefined when the key is absent or o is no object
Get(j, key) ==
  IF j.t = "obj" /\ key \in DOMAIN j.v THEN j.v[key] ELSE JUndef

\* isNaN(parsed) ? 0 : parsed
ZeroIfNaN(parsed) == IF isNaN(parsed) THEN Zero ELSE parsed

\* a safeParseFloat that takes a value for a number only when the whole of
\* it is one: Number() in the place of parseFloat()
safeParseFloatWhole(value) ==
  IF Falsy(value) THEN Zero
  ELSE ZeroIfNaN(IF value.t = "str"
                 THEN (IF IsNumberText(value.v) THEN parseFloat(value.v) ELSE NaN)
                 ELSE IF value.t = "num" THEN Int2Num(value.v[1])
                 ELSE NaN)

safeParseFloat(value) ==
  IF Falsy(value) THEN Zero
  ELSE ZeroIfNaN(IF value.t = "str" THEN parseFloat(value.v)
                 ELSE IF value.t = "num" THEN Int2Num(value.v[1])
                 ELSE NaN)

----------------------------------------------------------------------------
(* Local calendar time, as the Date constructor and the Date getters do it *)

MsPerDay == 24 * 60 * 60 * 1000

\* days from 1970-01-01 to the civil date y-m-d (m in 1..12)
DaysFromCivil(y, m, d) ==
  LET yy == IF m <= 2 THEN y - 1 ELSE y
      era == FloorDiv(yy, 400)
      yoe == yy - era * 400
      doy == ((153 * (IF m > 2 THEN m - 3 ELSE m + 9) + 2) \div 5) + d - 1
      doe == yoe * 365 + (yoe \div 4) - (yoe \div 100) + doy
  IN  era * 146097 + doe - 719468

EpochDay == DaysFromCivil(2025, 1, 1)

\* the civil date of a day number counted from 1970-01-01
CivilFromDays(z0) ==
  LET civil(era, yoe, d, m) ==
        [year |-> yoe + era * 400 + (IF m <= 2 THEN 1 ELSE 0), month |-> m, day |-> d]
      ofMp(era, yoe, doy, mp) ==
        civil(era, yoe, doy - ((153 * mp + 2) \div 5) + 1, IF mp < 10 THEN mp + 3 ELSE mp - 9)
      ofDoy(era, yoe, doy) == ofMp(era, yoe, doy, (5 * doy + 2) \div 153)
      ofYoe(era, doe, yoe) == ofDoy(era, yoe, doe - (365 * yoe + (yoe \div 4) - (yoe \div 100)))
      ofDoe(era, doe) ==
        ofYoe(era, doe,
              (doe - (doe \div 1460) + (doe \div 36524) - (doe \div 146096)) \div 365)
      ofEra(z, era) == ofDoe(era, z - era * 146097)
      ofDay(z) == ofEra(z, FloorDiv(z, 146097))
  IN  ofDay(z0 + 719468)

\* new Date(year, month, day, hours, minutes, seconds).getTime(): NaN when a
\* field is NaN or undefined; fields out of range carry over (MakeDay, MakeTime)
DateGetTime(year, month, day, hours, minutes, seconds) ==
  IF \E x \in {year, month, day, hours, minutes, seconds} : ~IsFinite(x) THEN NaN
  ELSE LET time(days) ==
             Int2Num(days * MsPerDay + hours.n * 3600000 + minutes.n * 60000
                     + seconds.n * 1000)
           ofMonth(ym, mn) == time(DaysFromCivil(ym, mn + 1, 1) + day.n - 1 - EpochDay)
       IN  ofMonth(year.n + FloorDiv(month.n, 12), month.n - 12 * FloorDiv(month.n, 12))

\* the local calendar fields of the time t (the Date getters)
DateFields(t) ==
  LET fields(c, ms) ==
        [year |-> c.year, month |-> c.month, day |-> c.day,
         hours |-> ms \div 3600000,
         minutes |-> (ms % 3600000) \div 60000,
         seconds |-> (ms % 60000) \div 1000]
      ofDay(days) == fields(CivilFromDays(days + EpochDay), t - days * MsPerDay)
  IN  ofDay(FloorDiv(t, MsPerDay))

----------------------------------------------------------------------------
(* convertApiDataToReading, src/src/services/energyData.ts *)

\* the errors the service throws are TypeErrors: a property read of undefined
\* or of null
Throw == [thrown |-> TRUE, error |-> "TypeError"]
Return(x) == [thrown |-> FALSE, value |-> x]

\* element i of a destructured array: undefined (NaN as a Date field) past its end
Part(parts, i) == IF i <= Len(parts) THEN parts[i] ELSE NaN

batteryVoltageOf(mpptData) == safeParseFloat(At(mpptData, 2))
solarVoltageOf(mpptData) == safeParseFloat(At(mpptData, 3))
solarAmpsOf(mpptData) == safeParseFloat(At(mpptData, 5))
batteryLoadOf(chargeData) == safeParseFloat(Get(chargeData, "last_shunt_v"))

\* a solarPower rounded to whole watts, as getEnergyStats rounds its figures
solarPowerRounded(solarVoltage, solarAmps) == MathRound(Times(solarVoltage, solarAmps))

solarPowerOf(solarVoltage, solarAmps) == Times(solarVoltage, solarAmps)

\* a battery percentage without the Math.max(0, ...)
batteryPercentageNoFloor(batteryVoltage) ==
  MathMin(Int2Num(100),
          Times(DividedBy(Minus(batteryVoltage, Rat(105, 10)),
                          Minus(Rat(144, 10), Rat(105, 10))), Int2Num(100)))

batteryPercentageOf(batteryVoltage) ==
  MathMin(Int2Num(100),
          MathMax(Zero,
                  Times(DividedBy(Minus(batteryVoltage, Rat(105, 10)),
                                  Minus(Rat(144, 10), Rat(105, 10))), Int2Num(100))))

inverterLoadOf(solarPower, batteryLoad, batteryVoltage) ==
  IF Gt(batteryLoad, Zero)
  THEN MathAbs(Minus(solarPower, Times(Times(batteryLoad, Int2Num(2)), batteryVoltage)))
  ELSE MathAbs(Times(batteryLoad, Rat(3777, 100)))

\* parts.map(Number)
MapNumber(parts) == [i \in DOMAIN parts |-> Number(parts[i])]

\* new Date(year, month - 1, day, hours, minutes, seconds).getTime()
timeOf(ymd, hms) ==
  DateGetTime(Part(ymd, 1), Minus(Part(ymd, 2), Int2Num(1)), Part(ymd, 3),
              Part(hms, 1), Part(hms, 2), Part(hms, 3))

\* the try block of the timestamp: split throws on a truthy non-string
timestampOf(mpptData, now) ==
  LET stamp(d, t) ==
        IF ~Falsy(d) /\ ~Falsy(t)
        THEN IF d.t # "str" \/ t.t # "str" THEN Int2Num(now)
             ELSE timeOf(MapNumber(split(d.v, "-")), MapNumber(split(t.v, ":")))
        ELSE Int2Num(now)
  IN  stamp(At(mpptData, 0), At(mpptData, 1))

\* reading mpptData[2] or chargeData.last_shunt_v throws a TypeError when the
\* record or the charge object is undefined or null
convertThrows(mpptData, chargeData) == Nullish(mpptData) \/ Nullish(chargeData)

convertApiDataToReading(mpptData, powerData, chargeData, now) ==
  LET reading(batteryVoltage, solarVoltage, solarAmps, batteryLoad, solarPower) ==
        [timestamp |-> timestampOf(mpptData, now),
         solarVoltage |-> solarVoltage,
         chargingVoltage |-> batteryVoltage,
         chargingAmps |-> solarAmps,
         batteryPercentage |-> batteryPercentageOf(batteryVoltage),
         loadWatts |-> MathAbs(Times(Times(batteryLoad, batteryVoltage), Int2Num(2))),
         solarPower |-> solarPower,
         inverterLoad |-> inverterLoadOf(solarPower, batteryLoad, batteryVoltage)]
      parsed(batteryVoltage, solarVoltage, solarAmps, batteryLoad) ==
        reading(batteryVoltage, solarVoltage, solarAmps, batteryLoad,
                solarPowerOf(solarVoltage, solarAmps))
  IN  IF convertThrows(mpptData, chargeData) THEN Throw
      ELSE Return(parsed(batteryVoltageOf(mpptData), solarVoltageOf(mpptData),
                         solarAmpsOf(mpptData), batteryLoadOf(chargeData)))

----------------------------------------------------------------------------
(* convertApiDataToReading of the 24 V revision, src/unnamed/part_002 *)

batteryVoltage24Of(mpptData) == Times(safeParseFloat(At(mpptData, 2)), Int2Num(2))

batteryPercentage24Of(batteryVoltage) ==
  MathMin(Int2Num(100),
          MathMax(Zero,
                  Times(DividedBy(Minus(batteryVoltage, Int2Num(20)),
                                  Minus(Int2Num(29), Int2Num(20))), Int2Num(100))))

\* random is the value Math.random() returns, in [0, 1)
inverterLoad24Of(solarPower, batteryLoad, batteryVoltage, random) ==
  LET floor(load) ==
        IF Lt(load, Int2Num(100))
        THEN Plus(Int2Num(100), Times(random, Int2Num(100)))
        ELSE load
  IN  floor(IF Lt(batteryLoad, Zero)
            THEN MathAbs(Times(batteryLoad, batteryVoltage))
            ELSE MathMax(Zero, MathAbs(Minus(solarPower, Times(batteryLoad, batteryVoltage)))))

convertApiDataToReading24(mpptData, powerData, chargeData, now, random) ==
  LET reading(batteryVoltage, solarVoltage, solarAmps, batteryLoad, solarPower) ==
        [timestamp |-> Int2Num(now),
         solarVoltage |-> solarVoltage,
         chargingVoltage |-> batteryVoltage,
         chargingAmps |-> solarAmps,
         batteryPercentage |-> batteryPercentage24Of(batteryVoltage),
         loadWatts |-> MathAbs(Times(batteryLoad, batteryVoltage)),
         solarPower |-> solarPower,
         inverterLoad |-> inverterLoad24Of(solarPower, batteryLoad, batteryVoltage, random)]
      parsed(batteryVoltage, solarVoltage, solarAmps, batteryLoad) ==
        reading(batteryVoltage, solarVoltage, solarAmps, batteryLoad,
                solarPowerOf(solarVoltage, solarAmps))
  IN  IF convertThrows(mpptData, chargeData) THEN Throw
      ELSE Return(parsed(batteryVoltage24Of(mpptData), solarVoltageOf(mpptData),
                         solarAmpsOf(mpptData), batteryLoadOf(chargeData)))

----------------------------------------------------------------------------
(* The upstream payload and the three service calls on a fetched payload *)

\* the validation of fetchApiData
ValidStructureNoCharge(data) ==
  ~Falsy(data) /\ IsArray(At(data, 0)) /\ IsArray(At(data, 1))

ValidStructure(data) ==
  ~Falsy(data) /\ IsArray(At(data, 0)) /\ IsArray(At(data, 1)) /\ ~Falsy(At(data, 3))

ReverseNot(a) == a

\* a.reverse()
Reverse(a) == LET n == Len(a) IN SubSeq([i \in 1..n |-> a[n + 1 - i]], 1, n)

\* getHistoricalData after its fetch: any failure inside gives the empty list
getHistoricalDataOf(apiData, now) ==
  LET powerRecord(powerData, index) ==
        IF Falsy(At(powerData, index)) THEN At(powerData, Len(powerData.v) - 1)
        ELSE At(powerData, index)
      readings(mpptData, powerData) ==
        IF \E i \in 1..Len(mpptData.v) : convertThrows(mpptData.v[i], At(apiData, 3))
        THEN <<>>
        ELSE [i \in 1..Len(mpptData.v) |->
                convertApiDataToReading(mpptData.v[i], powerRecord(powerData, i - 1),
                                        At(apiData, 3), now).value]
  IN  readings(JArr(Reverse(At(apiData, 0).v)), JArr(Reverse(At(apiData, 1).v)))

\* getCurrentReading after its fetch: a failure inside is thrown on
getCurrentReadingOf(apiData, now) ==
  LET latestMpptData == At(At(apiData, 0), Len(At(apiData, 0).v) - 1)
      latestPowerData == At(At(apiData, 1), Len(At(apiData, 1).v) - 1)
  IN  convertApiDataToReading(latestMpptData, latestPowerData, At(apiData, 3), now)

----------------------------------------------------------------------------
(* generateMockData, src/src/services/energyData.ts *)

\* the hundredths of (12 + Math.sin(i / 10) * 0.5).toFixed(2), i = 0..95
mockBatteryVoltage ==
  <<
     1200, 1205, 1210, 1215, 1219, 1224, 1228, 1232, 1236, 1239, 1242, 1245,
     1247, 1248, 1249, 1250, 1250, 1250, 1249, 1247, 1245, 1243, 1240, 1237,
     1234, 1230, 1226, 1221, 1217, 1212, 1207, 1202, 1197, 1192, 1187, 1182,
     1178, 1174, 1169, 1166, 1162, 1159, 1156, 1154, 1152, 1151, 1150, 1150,
     1150, 1151, 1152, 1154, 1156, 1158, 1161, 1165, 1168, 1172, 1177, 1181,
     1186, 1191, 1196, 1201, 1206, 1211, 1216, 1220, 1225, 1229, 1233, 1236,
     1240, 1243, 1245, 1247, 1248, 1249, 1250, 1250, 1249, 1248, 1247, 1245,
     1243, 1240, 1237, 1233, 1229, 1225, 1221, 1216, 1211, 1206, 1201, 1196 >>

\* the hundredths of (36 + Math.sin(i / 5) * 8).toFixed(2), i = 0..47
mockSolarVoltage ==
  <<
     3600, 3759, 3912, 4052, 4174, 4273, 4346, 4388, 4400, 4379, 4327, 4247,
     4140, 4012, 3868, 3713, 3553, 3396, 3246, 3111, 2995, 2903, 2839, 2805,
     2803, 2833, 2893, 2982, 3095, 3228, 3376, 3534, 3693, 3849, 3995, 4126,
     4235, 4319, 4374, 4399, 4391, 4353, 4284, 4188, 4068, 3930, 3778, 3620 >>

\* the hundredths of (0.5 + Math.sin(i / 8)).toFixed(2), i = 0..47
mockSolarAmps ==
  <<
     50, 62, 75, 87, 98, 109, 118, 127, 134, 140, 145, 148,
     150, 150, 148, 145, 141, 135, 128, 119, 110, 99, 88, 76,
     64, 52, 39, 27, 15, 4, -7, -17, -26, -33, -39, -44,
     -48, -50, -50, -49, -46, -42, -36, -29, -21, -11, -1, 10 >>

mockRecordCount == 96

\* the YYYY-MM-DD and the HH:MM:SS of the calendar fields f
dateStr(f) ==
  NatStr(f.year) \o <<"-">> \o PadStart2(NatStr(f.month)) \o <<"-">> \o PadStart2(NatStr(f.day))

timeStr(f) ==
  PadStart2(NatStr(f.hours)) \o <<":">> \o PadStart2(NatStr(f.minutes)) \o <<":">>
  \o PadStart2(NatStr(f.seconds))

dateStrOf(time) == dateStr(DateFields(time))

timeStrOf(time) == timeStr(DateFields(time))

\* the MPPT record pushed by iteration i of the loop
mockMpptRecord(i, now) ==
  LET time == now - i * 15 * 60000
  IN  JArr(<<JStr(dateStrOf(time)), JStr(timeStrOf(time)),
             JStr(toFixed2(mockBatteryVoltage[i + 1])),
             JStr(IF i < 48 THEN toFixed2(mockSolarVoltage[i + 1]) ELSE <<"1", ".", "8", "8">>),
             JStr(<<"0">>),
             JStr(IF i < 48 THEN toFixed2(mockSolarAmps[i + 1]) ELSE <<"0", ".", "3", "7">>),
             JStr(IF i < 48 THEN <<"-", "1", ".", "2", "0">> ELSE <<"-", "5", ".", "0", "0">>),
             JStr(IF i < 48 THEN <<"1", "0">> ELSE <<"0">>),
             JStr(IF i < 48 THEN <<"M", "P", "P", "T">> ELSE <<"O", "F", "F">>),
             JStr(<<>>), JStr(<<"0">>)>>)

\* the power record pushed by iteration i of the loop
mockPowerRecord(i, now) ==
  LET time == now - i * 15 * 60000
  IN  JArr(<<JStr(dateStrOf(time)), JStr(timeStrOf(time)),
             JStr(IF i < 48 THEN <<"0", ".", "8">> ELSE <<"0", ".", "2">>),
             JStr(<<"0">>), JStr(<<"0">>)>>)

mockMonthly ==
  JArr(<<JArr(<<JStr(<<"2", "0", "2", "5", "-", "0", "4">>), JStr(<<"5", "0", "0", "0">>)>>),
         JArr(<<JStr(<<"2", "0", "2", "5", "-", "0", "3">>), JStr(<<"4", "8", "0", "0">>)>>),
         JArr(<<JStr(<<"2", "0", "2", "5", "-", "0", "2">>), JStr(<<"4", "6", "0", "0">>)>>)>>)

mockChargeData ==
  JObj([kwh_positive |-> JStr(<<"1", ".", "2", "5">>),
        kwh_negative |-> JStr(<<"-", "0", ".", "7", "5">>),
        last_shunt_v |-> JStr(<<"-", "2", ".", "5">>)])

generateMockData(now) ==
  JArr(<<JArr(ArrayOf(mockRecordCount, LAMBDA i : mockMpptRecord(i, now))),
         JArr(ArrayOf(mockRecordCount, LAMBDA i : mockPowerRecord(i, now))),
         mockMonthly,
         mockChargeData>>)

----------------------------------------------------------------------------
(* fetchApiData, src/src/services/energyData.ts *)

maxRetries == 3

\* what one fetch() of the loop comes back with: a rejected request, a
\* response that is not ok or does not parse (kind "error"), or parsed JSON
NetworkError == [kind |-> "error", data |-> JNull]
Json(data) == [kind |-> "json", data |-> data]

\* the fetchApiData of src/unnamed/part_001 as a turn of the loop: the
\* catch block rethrows and the call rejects
fetchApiDataRethrow(retries, response, now) ==
  IF response.kind = "json" /\ ValidStructure(response.data)
  THEN [done |-> TRUE, thrown |-> FALSE, retries |-> retries, result |-> response.data]
  ELSE [done |-> TRUE, thrown |-> TRUE, retries |-> retries + 1, result |-> JNull]

\* one turn of the while loop, entered with `retries` failed attempts behind
\* it and answered by `response`: either fetchApiData returns (done) with
\* its result, or it waits 1000 * retries ms and loops; nothing escapes the
\* try block, so the call never rejects (thrown)
fetchApiDataStep(retries, response, now) ==
  IF response.kind = "json" /\ ValidStructure(response.data)
  THEN [done |-> TRUE, thrown |-> FALSE, retries |-> retries, result |-> response.data]
  ELSE IF retries + 1 >= maxRetries
       THEN [done |-> TRUE, thrown |-> FALSE, retries |-> retries + 1,
             result |-> generateMockData(now)]
       ELSE [done |-> FALSE, thrown |-> FALSE, retries |-> retries + 1, result |-> JNull]

----------------------------------------------------------------------------
(* getEnergyStats, src/src/services/energyData.ts *)

\* data.reduce((total, reading) => total + reading.solarVoltage *
\* reading.chargingAmps, 0) over readings lo..hi; the sum is exact, so the
\* order it is taken in does not matter
RECURSIVE SumSolar(_, _, _)
SumSolar(data, lo, hi) ==
  IF lo > hi THEN Zero
  ELSE IF lo = hi THEN Times(data[lo].solarVoltage, data[lo].chargingAmps)
  ELSE LET mid == (lo + hi) \div 2
       IN  Plus(SumSolar(data, lo, mid), SumSolar(data, mid + 1, hi))

\* peakPower after the forEach has visited readings lo..hi, starting from 0:
\* the largest solarPower that compares greater than 0 and than the others
RECURSIVE PeakPower(_, _, _)
PeakPower(data, lo, hi) ==
  IF lo > hi THEN Zero
  ELSE IF lo = hi THEN (IF Gt(data[lo].solarPower, Zero) THEN data[lo].solarPower ELSE Zero)
  ELSE LET mid == (lo + hi) \div 2
           left == PeakPower(data, lo, mid)
           right == PeakPower(data, mid + 1, hi)
       IN  IF Gt(right, left) THEN right ELSE left

\* data[data.length - 1]: undefined for an empty list
latestReadingFirst(data) == data[1]

latestReadingOf(data) == data[Len(data)]

\* safeParseFloat(chargeData.kwh_positive) * 1000
dailyEnergyChargedOf(chargeData) ==
  Times(safeParseFloat(Get(chargeData, "kwh_positive")), Int2Num(1000))

dailyEnergyDischargedSigned(chargeData) ==
  Times(safeParseFloat(Get(chargeData, "kwh_negative")), Int2Num(1000))

\* Math.abs(safeParseFloat(chargeData.kwh_negative)) * 1000
dailyEnergyDischargedOf(chargeData) ==
  Times(MathAbs(safeParseFloat(Get(chargeData, "kwh_negative"))), Int2Num(1000))

\* Math.round(x * 100) / 100
Round2(x) == DividedBy(MathRound(Times(x, Int2Num(100))), Int2Num(100))

totalChargeOfRounded(dailyEnergyCharged, dailyEnergyDischarged) ==
  Round2(DividedBy(Minus(MathRound(dailyEnergyCharged), MathRound(dailyEnergyDischarged)),
                   Int2Num(1000)))

\* Math.round((dailyEnergyCharged - dailyEnergyDischarged) / 1000 * 100) / 100
totalChargeOf(dailyEnergyCharged, dailyEnergyDischarged) ==
  Round2(DividedBy(Minus(dailyEnergyCharged, dailyEnergyDischarged), Int2Num(1000)))

\* getEnergyStats after its fetch: reading data[data.length - 1] of an empty
\* list throws a TypeError, which is thrown on
getEnergyStatsOf(data, chargeData) ==
  LET energyStats(latestReading, dailyEnergyCharged, dailyEnergyDischarged, solarGeneration) ==
        [dailyEnergyCharged |-> MathRound(dailyEnergyCharged),
         dailyEnergyDischarged |-> MathRound(dailyEnergyDischarged),
         currentPowerUsage |-> MathRound(latestReading.solarPower),
         currentLoad |-> MathRound(latestReading.loadWatts),
         peakPower |-> MathRound(PeakPower(data, 1, Len(data))),
         batteryPercentage |-> MathRound(latestReading.batteryPercentage),
         solarGeneration |-> Round2(solarGeneration),
         totalCharge |-> totalChargeOf(dailyEnergyCharged, dailyEnergyDischarged)]
  IN  IF Nullish(chargeData) \/ data = <<>> THEN Throw
      ELSE Return(energyStats(
             latestReadingOf(data),
             dailyEnergyChargedOf(chargeData),
             dailyEnergyDischargedOf(chargeData),
             DividedBy(SumSolar(data, 1, Len(data)), Int2Num(60000))))

\* the 24 V revision's sum of the solarPower of readings lo..hi that exceed
\* 10 W: data.filter(...).reduce(...)
RECURSIVE SumSolar24(_, _, _)
SumSolar24(data, lo, hi) ==
  IF lo > hi THEN Zero
  ELSE IF lo = hi
    THEN (IF Gt(data[lo].solarPower, Int2Num(10)) THEN data[lo].solarPower ELSE Zero)
  ELSE LET mid == (lo + hi) \div 2
       IN  Plus(SumSolar24(data, lo, mid), SumSolar24(data, mid + 1, hi))

\* getEnergyStats of the 24 V revision after its fetch: currentLoad is the
\* inverterLoad of the latest reading
getEnergyStats24Of(data, chargeData) ==
  LET energyStats(latestReading, dailyEnergyCharged, dailyEnergyDischarged, solarGeneration) ==
        [dailyEnergyCharged |-> MathRound(dailyEnergyCharged),
         dailyEnergyDischarged |-> MathRound(dailyEnergyDischarged),
         currentPowerUsage |-> MathRound(latestReading.solarPower),
         currentLoad |-> MathRound(latestReading.inverterLoad),
         peakPower |-> MathRound(PeakPower(data, 1, Len(data))),
         batteryPercentage |-> MathRound(latestReading.batteryPercentage),
         solarGeneration |-> Round2(solarGeneration),
         totalCharge |-> totalChargeOf(dailyEnergyCharged, dailyEnergyDischarged)]
  IN  IF Nullish(chargeData) \/ data = <<>> THEN Throw
      ELSE Return(energyStats(
             latestReadingOf(data),
             dailyEnergyChargedOf(chargeData),
             dailyEnergyDischargedOf(chargeData),
             DividedBy(SumSolar24(data, 1, Len(data)), Int2Num(60000))))

\* the first revision's peak after its loop has visited readings lo..hi: the
\* largest chargingVoltage * chargingAmps above 0
RECURSIVE PeakPower001(_, _, _)
PeakPower001(data, lo, hi) ==
  LET larger(left, right) == IF Gt(right, left) THEN right ELSE left
      power(reading) == Times(reading.chargingVoltage, reading.chargingAmps)
  IN  IF lo > hi THEN Zero
      ELSE IF lo = hi THEN larger(Zero, power(data[lo]))
      ELSE larger(PeakPower001(data, lo, (lo + hi) \div 2),
                  PeakPower001(data, ((lo + hi) \div 2) + 1, hi))

\* base + Math.round(Math.random() * range)
mockStat(base, range, random) ==
  Plus(Int2Num(base), MathRound(Times(random, Int2Num(range))))

\* the mock stats of the first revision's catch block, `random` being the
\* six values Math.random() returns
mockStats(random) ==
  [dailyEnergyCharged |-> mockStat(500, 500, random[1]),
   dailyEnergyDischarged |-> mockStat(400, 300, random[2]),
   currentPowerUsage |-> mockStat(150, 100, random[3]),
   currentLoad |-> mockStat(120, 80, random[4]),
   peakPower |-> mockStat(300, 200, random[5]),
   batteryPercentage |-> mockStat(50, 30, random[6])]

\* a getEnergyStats that answers with mock stats whatever it is given
getEnergyStats001Mock(data, response, random) == Return(mockStats(random))

\* getEnergyStats of the first revision, whose fetchApiData rejects when the
\* request fails and whose catch block returns mock stats: `response` is what
\* its fetch came to
getEnergyStats001Of(data, response, random) ==
  LET energyStats(latestReading, apiData) ==
        [dailyEnergyCharged |-> MathRound(dailyEnergyChargedOf(apiData)),
         dailyEnergyDischarged |-> MathRound(dailyEnergyDischargedOf(apiData)),
         currentPowerUsage |->
           MathRound(Times(latestReading.chargingVoltage, latestReading.chargingAmps)),
         currentLoad |-> MathRound(latestReading.loadWatts),
         peakPower |-> MathRound(PeakPower001(data, 1, Len(data))),
         batteryPercentage |-> MathRound(latestReading.batteryPercentage)]
  IN  IF response.kind # "json" \/ Nullish(response.data) \/ data = <<>>
      THEN Return(mockStats(random))
      ELSE Return(energyStats(latestReadingOf(data), response.data))

----------------------------------------------------------------------------
(* State *)

VARIABLES
  \* the page, src/src/pages/Index.tsx: the seven useState cells
  historicalData, currentReading, stats, isLoading, lastUpdated, error, retryCount,
  \* the page's asynchronous activity: the calls of fetchData and of the
  \* interval callback that are suspended at an await, the pending
  \* setTimeout(fetchData, 3000) timers, the [error, retryCount] the load
  \* effect last ran with, and the wall clock
  loads, ticks, timeouts, effectDeps, clock,
  \* the endpoint and the service in front of it: for every wall clock of the
  \* behaviour, every answer the endpoint may give then and every number of
  \* failed attempts, what one round of fetchApiData and the service's
  \* functions come to; and how many requests the endpoint has failed so far
  service, failures,
  \* history of the window: every reading in the order it arrived since the
  \* last setHistoricalData(data), and how many of them a polling tick appended
  arrivals, appended,
  \* one call of fetchApiData on its own: where it is, its local `retries`,
  \* the fetch() calls it has made, what it returned, the calls made so far;
  \* and, for every answer of the endpoint and every number of failed
  \* attempts, what one turn of its loop comes to
  fPc, fRetries, fFetches, fResult, fCalls, fetched,
  \* the Normalizer on its own: the payload and wall clock it is applied to
  \* and the outcome of the last call
  nIn, nNow, nOut,
  \* the Aggregator on its own: the window it is handed, what the request of
  \* its fetchApiData comes to, the outcome of the last call and of the call
  \* before it
  sData, sResponse, sOut, sPrev,
  \* the chart, src/unnamed/part_004: its `data` prop, its useState cell
  \* timeRange, the Date.now() of its last render and the filteredData of
  \* that render
  cData, timeRange, cNow, filteredData

pageVars ==
  <<historicalData, currentReading, stats, isLoading, lastUpdated, error, retryCount,
    loads, ticks, timeouts, effectDeps, clock, service, failures, arrivals, appended>>
fetchVars == <<fPc, fRetries, fFetches, fResult, fCalls, fetched>>
normVars == <<nIn, nNow, nOut>>
statsVars == <<sData, sResponse, sOut, sPrev>>
chartVars == <<cData, timeRange, cNow, filteredData>>
vars == <<pageVars, fetchVars, normVars, statsVars, chartVars>>

Null == [null |-> TRUE]
NoError == "null"

\* the wall clock at which every specification starts: 2025-01-01 12:30:00.123
StartNow == 12 * 3600000 + 30 * 60000 + 123

----------------------------------------------------------------------------
(* The Normalizer on its own *)

\* field strings the upstream may send at the positions the Normalizer reads
BatteryFields ==
  {JStr(<<"1", "2", ".", "3", "0">>), JStr(<<"9", ".", "0", "0">>), JStr(<<"1", "5", ".", "0", "0">>), JStr(<<"1", "0", ".", "5", "0">>),
   JStr(<<"1", "4", ".", "4", "0">>), JStr(<<"-", "3", ".", "0", "0">>), JStr(<<"1", "2", ".", "3", "V">>), JStr(<<"n", "/", "a">>),
   JStr(<<>>), JUndef, JNull, JStr(<<"I", "n", "f", "i", "n", "i", "t", "y">>), JStr(<<"-", "I", "n", "f", "i", "n", "i", "t", "y">>)}

SolarVoltageFields ==
  {JStr(<<"4", "0", ".", "0", "0">>), JStr(<<"0">>), JStr(<<"-", "5", ".", "0", "0">>), JStr(<<"e", "r", "r">>), JUndef,
   JStr(<<"I", "n", "f", "i", "n", "i", "t", "y">>)}

SolarAmpsFields ==
  {JStr(<<"1", ".", "0", "0">>), JStr(<<"0">>), JStr(<<"-", "0", ".", "2", "1">>), JStr(<<"2", ".", "5", "A">>), JUndef}

ShuntFields ==
  {JStr(<<"-", "2", ".", "5">>), JStr(<<"2", ".", "5">>), JStr(<<"0">>), JStr(<<"o", "f", "f">>), JUndef}

DateFieldsIn ==
  {JStr(<<"2", "0", "2", "5", "-", "0", "1", "-", "0", "1">>), JStr(<<"2", "0", "2", "4", "-", "1", "2", "-", "3", "1">>), JStr(<<"y", "e", "s", "t", "e", "r", "d", "a", "y">>),
   JStr(<<"2", "0", "2", "5", "-", "0", "1">>), JStr(<<>>), JUndef, JNum(20250101)}

TimeFieldsIn ==
  {JStr(<<"1", "2", ":", "0", "0", ":", "0", "0">>), JStr(<<"2", "3", ":", "5", "9", ":", "5", "9">>), JStr(<<"n", "o", "o", "n">>),
   JStr(<<"1", "2", ":", "0", "0">>), JUndef, JNum(120000)}

ChargeDataOf(shunt) ==
  JObj([kwh_positive |-> JStr(<<"1", ".", "2", "5">>),
        kwh_negative |-> JStr(<<"-", "0", ".", "7", "5">>),
        last_shunt_v |-> shunt])

\* a charge object without last_shunt_v
ChargeDataNoShunt ==
  JObj([kwh_positive |-> JStr(<<"1", ".", "2", "5">>), kwh_negative |-> JStr(<<"-", "0", ".", "7", "5">>)])

RawRecordOf(date, time, battery, solarV, solarA) ==
  JArr(<<date, time, battery, solarV, JStr(<<"0">>), solarA, JStr(<<"-", "1", ".", "2", "0">>),
         JStr(<<"1", "0">>), JStr(<<"M", "P", "P", "T">>), JStr(<<>>), JStr(<<"0">>)>>)

GoodDate == JStr(<<"2", "0", "2", "5", "-", "0", "1", "-", "0", "1">>)
GoodTime == JStr(<<"1", "2", ":", "0", "0", ":", "0", "0">>)

\* records that vary the numeric fields, records that vary the date and
\* time fields, and records with positions missing at the end
RawRecords ==
  {RawRecordOf(GoodDate, GoodTime, b, v, a) :
     b \in BatteryFields, v \in SolarVoltageFields, a \in SolarAmpsFields}
  \cup {RawRecordOf(d, t, JStr(<<"1", "2", ".", "3", "0">>), JStr(<<"4", "0", ".", "0", "0">>), JStr(<<"1", ".", "0", "0">>)) :
          d \in DateFieldsIn, t \in TimeFieldsIn}
  \cup {JArr(<<>>), JArr(<<GoodDate, GoodTime>>), JArr(<<GoodDate, GoodTime, JStr(<<"1", "2", ".", "3", "0">>)>>)}

PowerRecord == JArr(<<GoodDate, GoodTime, JStr(<<"0", ".", "8">>), JStr(<<"0">>), JStr(<<"0">>)>>)

PayloadOf(mppt, power, charge) == JArr(<<JArr(mppt), JArr(power), JArr(<<>>), charge>>)

\* the longest list of records of a payload handed to the Normalizer
NormMaxLen == 2

GoodRecord ==
  RawRecordOf(GoodDate, GoodTime, JStr(<<"1", "2", ".", "3", "0">>), JStr(<<"4", "0", ".", "0", "0">>), JStr(<<"1", ".", "0", "0">>))

\* a record sampled a quarter of an hour before GoodRecord, and its power record
EarlierRecord ==
  RawRecordOf(GoodDate, JStr(<<"1", "1", ":", "4", "5", ":", "0", "0">>), JStr(<<"1", "4", ".", "4", "0">>), JStr(<<"0">>), JStr(<<"0">>))

EarlierPowerRecord == JArr(<<GoodDate, JStr(<<"1", "1", ":", "4", "5", ":", "0", "0">>), JStr(<<"0", ".", "2">>), JStr(<<"0">>), JStr(<<"0">>)>>)

\* payloads that pass the validation of fetchApiData: every record with one
\* charge object, one record with every charge object, lists of
\* 0..NormMaxLen records, among them null records, and lists of different
\* records, the newest first and the oldest first, with power records for
\* none, some and all of them
NormPayloads ==
  {PayloadOf(<<r>>, <<PowerRecord>>, ChargeDataOf(JStr(<<"-", "2", ".", "5">>))) : r \in RawRecords}
  \cup {PayloadOf(<<r>>, <<PowerRecord>>, c) :
          r \in {GoodRecord, RawRecordOf(GoodDate, GoodTime, JStr(<<"1", "2", ".", "3", "0">>), JStr(<<"-", "5", ".", "0", "0">>),
                                         JStr(<<"1", ".", "0", "0">>))},
          c \in {ChargeDataOf(x) : x \in ShuntFields} \cup {ChargeDataNoShunt}}
  \cup {PayloadOf([i \in 1..k |-> r], [i \in 1..p |-> PowerRecord], ChargeDataOf(JStr(<<"-", "2", ".", "5">>))) :
          k \in 0..NormMaxLen, p \in 0..1, r \in {GoodRecord, JNull}}
  \cup {PayloadOf(mppt, power, ChargeDataOf(JStr(<<"-", "2", ".", "5">>))) :
          mppt \in {<<GoodRecord, EarlierRecord>>, <<EarlierRecord, GoodRecord>>,
                    <<GoodRecord, JNull>>},
          power \in {<<>>, <<PowerRecord>>, <<PowerRecord, EarlierPowerRecord>>}}

\* values Math.random() may return
Randoms == {Zero, Rat(1, 2), Rat(99, 100)}

NoCall == [op |-> "none"]

NormInit ==
  /\ nIn \in NormPayloads
  /\ nNow = StartNow
  /\ nOut = NoCall

\* convertApiDataToReading on record i of the payload
NormConvert ==
  \E i \in 0..(Len(At(nIn, 0).v) - 1) :
    /\ nOut' = [op |-> "convertApiDataToReading", i |-> i,
                res |-> convertApiDataToReading(At(At(nIn, 0), i), At(At(nIn, 1), i),
                                                At(nIn, 3), nNow)]
    /\ UNCHANGED <<nIn, nNow, pageVars, fetchVars, statsVars, chartVars>>

\* the 24 V revision's convertApiDataToReading on record i of the payload
NormConvert24 ==
  \E i \in 0..(Len(At(nIn, 0).v) - 1), random \in Randoms :
    /\ nOut' = [op |-> "convertApiDataToReading24", i |-> i,
                res |-> convertApiDataToReading24(At(At(nIn, 0), i), At(At(nIn, 1), i),
                                                  At(nIn, 3), nNow, random)]
    /\ UNCHANGED <<nIn, nNow, pageVars, fetchVars, statsVars, chartVars>>

NormGetCurrentReading ==
  /\ nOut' = [op |-> "getCurrentReading", res |-> getCurrentReadingOf(nIn, nNow)]
  /\ UNCHANGED <<nIn, nNow, pageVars, fetchVars, statsVars, chartVars>>

NormGetHistoricalData ==
  /\ nOut' = [op |-> "getHistoricalData", res |-> getHistoricalDataOf(nIn, nNow)]
  /\ UNCHANGED <<nIn, nNow, pageVars, fetchVars, statsVars, chartVars>>

----------------------------------------------------------------------------
(* What the upstream endpoint may answer *)

liveChargeData ==
  JObj([kwh_positive |-> JStr(<<"2", ".", "4", "0">>),
        kwh_negative |-> JStr(<<"-", "1", ".", "1", "0">>),
        last_shunt_v |-> JStr(<<"1", ".", "5">>)])

\* record i of a live payload: sampled i quarters of an hour before now
liveMpptRecord(i, now) ==
  LET time == now - i * 15 * 60000
  IN  RawRecordOf(JStr(dateStrOf(time)), JStr(timeStrOf(time)),
                  JStr(toFixed2(mockBatteryVoltage[(i % 96) + 1] + 100)),
                  JStr(toFixed2(mockSolarVoltage[(i % 48) + 1])),
                  JStr(toFixed2(mockSolarAmps[(i % 48) + 1])))

\* a structurally valid payload of n records, the newest first
LivePayload(n, now) ==
  PayloadOf(ArrayOf(n, LAMBDA i : liveMpptRecord(i, now)),
            ArrayOf(n, LAMBDA i : mockPowerRecord(i, now)), liveChargeData)

\* a structurally valid payload whose only MPPT record is null
NullRecordPayload == PayloadOf(<<JNull>>, <<PowerRecord>>, liveChargeData)

\* parsed JSON that fails the validation: null, an error object, data[0] no
\* array, data[1] no array, data[3] missing: InvalidJson(1) .. InvalidJson(5)
\* the answers of the endpoint are named by small records: a failed request,
\* the k-th invalid JSON, a live payload of n records, the null-record payload
Failure == [kind |-> "error", n |-> 0]
Invalid(k) == [kind |-> "invalid", n |-> k]
Live(n) == [kind |-> "live", n |-> n]
NullRecord == [kind |-> "nullrecord", n |-> 1]

InvalidJson(k) ==
  CASE k = 1 -> JNull
    [] k = 2 -> JObj([error |-> JStr(<<"b", "u", "s", "y">>)])
    [] k = 3 -> JArr(<<JNull, JArr(<<>>), JArr(<<>>), liveChargeData>>)
    [] k = 4 -> JArr(<<JArr(<<>>), JStr(<<"x">>), JArr(<<>>), liveChargeData>>)
    [] k = 5 -> JArr(<<JArr(<<>>), JArr(<<>>), JArr(<<>>)>>)

\* what fetch() comes back with when the endpoint answers `answer` at `now`
Upstream(answer, now) ==
  CASE answer.kind = "error" -> NetworkError
    [] answer.kind = "invalid" -> Json(InvalidJson(answer.n))
    [] answer.kind = "live" -> Json(LivePayload(answer.n, now))
    [] answer.kind = "nullrecord" -> Json(NullRecordPayload)

----------------------------------------------------------------------------
(* fetchApiData on its own *)

\* the calls of fetchApiData one behaviour makes
MaxCalls == 2

\* the longest live payload fetchApiData is answered with on its own
FetchMaxLen == 2

FetchAnswers ==
  {Failure, NullRecord} \cup {Invalid(k) : k \in 1..5} \cup {Live(n) : n \in 0..FetchMaxLen}

\* one turn of the loop of fetchApiData for every answer of the endpoint and
\* every number of failed attempts
FetchTable(answers) ==
  [answer \in answers |->
     [retries \in 0..(maxRetries - 1) |->
        fetchApiDataStep(retries, Upstream(answer, StartNow), StartNow)]]

FetchInit(answers) ==
  /\ fetched = FetchTable(answers)
  /\ fPc = "idle"
  /\ fRetries = 0
  /\ fFetches = <<>>
  /\ fResult = JNull
  /\ fCalls = 0

\* a caller calls fetchApiData: retries = 0 and the first fetch() goes out
FetchCall ==
  /\ fPc \in {"idle", "returned"}
  /\ fCalls < MaxCalls
  /\ fPc' = "fetching"
  /\ fRetries' = 0
  /\ fFetches' = <<>>
  /\ fResult' = JNull
  /\ fCalls' = fCalls + 1
  /\ UNCHANGED <<fetched, pageVars, normVars, statsVars, chartVars>>

\* the fetch() in flight settles and the loop body runs up to its return or
\* to the wait before the next attempt
FetchRespond ==
  \E answer \in DOMAIN fetched :
    LET respond(step) ==
          /\ fFetches' = Append(fFetches, answer)
          /\ fRetries' = step.retries
          /\ fPc' = IF step.thrown THEN "rejected"
                    ELSE IF step.done THEN "returned" ELSE "waiting"
          /\ fResult' = step.result
    IN  /\ fPc = "fetching"
        /\ respond(fetched[answer][fRetries])
        /\ UNCHANGED <<fCalls, fetched, pageVars, normVars, statsVars, chartVars>>

\* the setTimeout(resolve, 1000 * retries) of the catch block fires
FetchBackoff ==
  /\ fPc = "waiting"
  /\ fPc' = "fetching"
  /\ UNCHANGED <<fRetries, fFetches, fResult, fCalls, fetched, pageVars, normVars, statsVars, chartVars>>

----------------------------------------------------------------------------
(* The service as the page meets it *)

\* when the fetchApiData a service function awaits has returned (done): what
\* getHistoricalData and getCurrentReading go on to make of its result, and
\* the apiData[3] that getEnergyStats reads
ServiceOutcome(step, now) ==
  [done |-> step.done, retries |-> step.retries,
   chargeData |-> IF step.done THEN At(step.result, 3) ELSE JUndef,
   historical |-> IF step.done THEN getHistoricalDataOf(step.result, now) ELSE <<>>,
   current |-> IF step.done THEN getCurrentReadingOf(step.result, now) ELSE Throw]

\* one round of the fetchApiData a service function awaits, with `retries`
\* failed attempts behind it and its fetch() answered by `answer` at `now`
ServiceStep(retries, answer, now) ==
  ServiceOutcome(fetchApiDataStep(retries, Upstream(answer, now), now), now)

\* the period of the polling interval, ms
IntervalMs == 30000

\* the wall clocks of a behaviour of maxTicks polling ticks
Clocks(maxTicks) == {StartNow + k * IntervalMs : k \in 0..maxTicks}

\* ServiceStep for every wall clock, every answer the endpoint may give at
\* that time and every number of failed attempts a call may have behind it
\* when the endpoint fails maxFailed requests
ServiceTable(AnswersAt(_), maxTicks, maxFailed) ==
  [now \in Clocks(maxTicks) |->
     [answer \in AnswersAt(now) |->
        [retries \in 0..(IF maxFailed < maxRetries THEN maxFailed ELSE maxRetries - 1) |->
           ServiceStep(retries, answer, now)]]]

NoAnswers(now) == {}

----------------------------------------------------------------------------
(* The page, src/src/pages/Index.tsx *)

\* a call of fetchData suspended at the await named by pc: the retryCount
\* its closure captured, the `retries` of the fetchApiData it waits for, and
\* its locals `data` and `reading`
LoadCall(rc) ==
  [retryCount |-> rc, pc |-> "getHistoricalData", retries |-> 0,
   data |-> <<>>, reading |-> Null]

\* the page after its first render and the first run of its two effects:
\* fetchData has been called and waits for getHistoricalData, the interval
\* is armed
PageInit(table) ==
  /\ historicalData = <<>>
  /\ currentReading = Null
  /\ stats = Null
  /\ isLoading = TRUE
  /\ lastUpdated = StartNow
  /\ error = NoError
  /\ retryCount = 0
  /\ loads = <<LoadCall(0)>>
  /\ ticks = <<>>
  /\ timeouts = <<>>
  /\ effectDeps = <<NoError, 0>>
  /\ clock = StartNow
  /\ service = table
  /\ failures = 0
  /\ arrivals = <<>>
  /\ appended = 0

\* the Normalizer at rest, for the specifications that are not about it
NormIdle ==
  /\ nIn = PayloadOf(<<>>, <<>>, liveChargeData)
  /\ nNow = StartNow
  /\ nOut = NoCall

\* the Aggregator is not called on its own
StatsIdle ==
  /\ sData = <<>>
  /\ sResponse = NetworkError
  /\ sOut = NoCall
  /\ sPrev = NoCall

\* the chart is not rendered
ChartIdle ==
  /\ cData = <<>>
  /\ timeRange = "6h"
  /\ cNow = StartNow
  /\ filteredData = <<>>

FailedToLoad == "Failed to load energy data. Please try again."

\* the capacity of the window: slice(-96)
WindowCap == 96

\* a.slice(-n): the last n elements, all of them when there are fewer
SliceLast(a, n) == IF Len(a) <= n THEN a ELSE SubSeq(a, Len(a) - n + 1, Len(a))

\* an updater that keeps the first WindowCap readings: slice(0, 96)
newDataKeepsOldest(prev, newReading) ==
  SubSeq(Append(prev, newReading), 1,
         IF Len(prev) + 1 <= WindowCap THEN Len(prev) + 1 ELSE WindowCap)

\* the updater handed to setHistoricalData by the interval callback
newData(prev, newReading) == SliceLast(Append(prev, newReading), WindowCap)

RemoveAt(a, i) == SubSeq(a, 1, i - 1) \o SubSeq(a, i + 1, Len(a))

\* a call of the interval callback suspended at the await named by pc: the
\* historicalData its closure captured, the `retries` of the fetchApiData
\* it waits for, and its local `newReading`
TickCall(hd) ==
  [historicalData |-> hd, pc |-> "getCurrentReading", retries |-> 0, newReading |-> Null]

\* the load effect has yet to run for the committed [error, retryCount];
\* React runs it before it handles any other event
EffectPending == effectDeps # <<error, retryCount>>

\* the requests the endpoint fails in one behaviour
MaxFailures == 1

\* what the endpoint may answer a fetch() with now
Answers == {answer \in DOMAIN service[clock] : answer.kind = "error" => failures < MaxFailures}

\* the failed requests after the endpoint has given `answer`
FailuresAfter(answer) == IF answer.kind = "error" THEN failures + 1 ELSE failures

\* the suspended call's round of fetchApiData when the endpoint answers its
\* fetch() with `answer`
Fetched(call, answer) == service[clock][answer][call.retries]

\* the load effect runs again after a render that changed error or
\* retryCount: a new fetchData, closed over that retryCount, is called and
\* runs to its first await
RunLoadEffect ==
  /\ EffectPending
  /\ effectDeps' = <<error, retryCount>>
  /\ loads' = Append(loads, LoadCall(retryCount))
  /\ isLoading' = TRUE
  /\ UNCHANGED <<historicalData, currentReading, stats, lastUpdated, error, retryCount,
                 ticks, timeouts, clock, service, failures, arrivals, appended,
                 fetchVars, normVars, statsVars, chartVars>>

\* a fetch() of a suspended fetchData fails and fetchApiData tries again
LoadFetchRetry ==
  \E i \in DOMAIN loads : \E answer \in Answers :
    LET step == Fetched(loads[i], answer)
    IN  /\ ~EffectPending
        /\ ~step.done
        /\ failures' = FailuresAfter(answer)
        /\ loads' = [loads EXCEPT ![i].retries = step.retries]
        /\ UNCHANGED <<historicalData, currentReading, stats, isLoading, lastUpdated, error,
                       retryCount, ticks, timeouts, effectDeps, clock, service, arrivals,
                       appended, fetchVars, normVars, statsVars, chartVars>>

\* a fetchData that publishes the historical data as soon as it has them
LoadGotHistoricalDataPublishes ==
  \E i \in DOMAIN loads : \E answer \in Answers :
    LET step == Fetched(loads[i], answer)
        data == step.historical
    IN  /\ ~EffectPending
        /\ loads[i].pc = "getHistoricalData"
        /\ step.done
        /\ Len(data) # 0
        /\ failures' = FailuresAfter(answer)
        /\ loads' = [loads EXCEPT ![i] = [@ EXCEPT !.pc = "getCurrentReading",
                                                   !.retries = 0, !.data = data]]
        /\ historicalData' = data
        /\ UNCHANGED <<currentReading, stats, isLoading, lastUpdated, error,
                       retryCount, ticks, timeouts, effectDeps, clock, service, arrivals,
                       appended, fetchVars, normVars, statsVars, chartVars>>

\* getHistoricalData resolves with a non-empty list: on to getCurrentReading
LoadGotHistoricalData ==
  \E i \in DOMAIN loads : \E answer \in Answers :
    LET step == Fetched(loads[i], answer)
        data == step.historical
    IN  /\ ~EffectPending
        /\ loads[i].pc = "getHistoricalData"
        /\ step.done
        /\ Len(data) # 0
        /\ failures' = FailuresAfter(answer)
        /\ loads' = [loads EXCEPT ![i] = [@ EXCEPT !.pc = "getCurrentReading",
                                                   !.retries = 0, !.data = data]]
        /\ UNCHANGED <<historicalData, currentReading, stats, isLoading, lastUpdated, error,
                       retryCount, ticks, timeouts, effectDeps, clock, service, arrivals,
                       appended, fetchVars, normVars, statsVars, chartVars>>

\* getCurrentReading resolves: on to getEnergyStats([...data, reading])
LoadGotCurrentReading ==
  \E i \in DOMAIN loads : \E answer \in Answers :
    LET step == Fetched(loads[i], answer)
        reading == step.current
    IN  /\ ~EffectPending
        /\ loads[i].pc = "getCurrentReading"
        /\ step.done
        /\ ~reading.thrown
        /\ failures' = FailuresAfter(answer)
        /\ loads' = [loads EXCEPT ![i] = [@ EXCEPT !.pc = "getEnergyStats",
                                                   !.retries = 0, !.reading = reading.value]]
        /\ UNCHANGED <<historicalData, currentReading, stats, isLoading, lastUpdated, error,
                       retryCount, ticks, timeouts, effectDeps, clock, service, arrivals,
                       appended, fetchVars, normVars, statsVars, chartVars>>

\* getEnergyStats resolves: fetchData publishes its results and returns
LoadSucceeds ==
  \E i \in DOMAIN loads : \E answer \in Answers :
    LET step == Fetched(loads[i], answer)
        energyStats == getEnergyStatsOf(Append(loads[i].data, loads[i].reading), step.chargeData)
    IN  /\ ~EffectPending
        /\ loads[i].pc = "getEnergyStats"
        /\ step.done
        /\ ~energyStats.thrown
        /\ failures' = FailuresAfter(answer)
        /\ historicalData' = loads[i].data
        /\ currentReading' = loads[i].reading
        /\ stats' = energyStats.value
        /\ lastUpdated' = clock
        /\ isLoading' = FALSE
        /\ error' = NoError
        /\ retryCount' = 0
        /\ loads' = RemoveAt(loads, i)
        /\ arrivals' = loads[i].data
        /\ appended' = 0
        /\ UNCHANGED <<ticks, timeouts, effectDeps, clock, service, fetchVars, normVars, statsVars, chartVars>>

\* the awaited call of a suspended fetchData fails (an empty historical
\* list, or getCurrentReading or getEnergyStats throws): the catch block.
\* Of the retry timers it arms, maxTimeouts are kept at one time: a timer
\* beyond them is one that does not fire within the behaviour
LoadFails(maxRetryCount, maxTimeouts) ==
  \E i \in DOMAIN loads : \E answer \in Answers :
    LET step == Fetched(loads[i], answer)
        failed ==
          CASE loads[i].pc = "getHistoricalData" -> Len(step.historical) = 0
            [] loads[i].pc = "getCurrentReading" -> step.current.thrown
            [] loads[i].pc = "getEnergyStats" ->
                 getEnergyStatsOf(Append(loads[i].data, loads[i].reading), step.chargeData).thrown
    IN  /\ ~EffectPending
        /\ step.done
        /\ failed
        /\ retryCount < maxRetryCount
        /\ failures' = FailuresAfter(answer)
        /\ retryCount' = retryCount + 1
        /\ IF loads[i].retryCount < 3
           THEN /\ timeouts' = IF Len(timeouts) < maxTimeouts
                               THEN Append(timeouts, loads[i].retryCount)
                               ELSE timeouts
                /\ UNCHANGED <<error, isLoading>>
           ELSE /\ error' = FailedToLoad
                /\ isLoading' = FALSE
                /\ UNCHANGED timeouts
        /\ loads' = RemoveAt(loads, i)
        /\ UNCHANGED <<historicalData, currentReading, stats, lastUpdated, ticks,
                       effectDeps, clock, service, arrivals, appended, fetchVars, normVars, statsVars, chartVars>>

\* a setTimeout(fetchData, 3000) fires: the fetchData of that closure is
\* called again and runs to its first await
TimeoutFires(maxInFlight) ==
  \E k \in DOMAIN timeouts :
    /\ ~EffectPending
    /\ Len(loads) + Len(ticks) < maxInFlight
    /\ loads' = Append(loads, LoadCall(timeouts[k]))
    /\ timeouts' = RemoveAt(timeouts, k)
    /\ isLoading' = TRUE
    /\ UNCHANGED <<historicalData, currentReading, stats, lastUpdated, error, retryCount,
                   ticks, effectDeps, clock, service, failures, arrivals, appended,
                   fetchVars, normVars, statsVars, chartVars>>

\* the interval fires, IntervalMs after it was armed or last fired: the
\* callback runs to its first await, or returns at once when there is an
\* error or no current reading
TimerFires(maxInFlight) ==
  /\ ~EffectPending
  /\ clock + IntervalMs \in DOMAIN service
  /\ Len(loads) + Len(ticks) < maxInFlight
  /\ clock' = clock + IntervalMs
  /\ ticks' = IF error = NoError /\ currentReading # Null
              THEN Append(ticks, TickCall(historicalData))
              ELSE ticks
  /\ UNCHANGED <<historicalData, currentReading, stats, isLoading, lastUpdated, error,
                 retryCount, loads, timeouts, effectDeps, service, failures, arrivals,
                 appended, fetchVars, normVars, statsVars, chartVars>>

\* a fetch() of a suspended interval callback fails and fetchApiData tries again
TickFetchRetry ==
  \E i \in DOMAIN ticks : \E answer \in Answers :
    LET step == Fetched(ticks[i], answer)
    IN  /\ ~EffectPending
        /\ ~step.done
        /\ failures' = FailuresAfter(answer)
        /\ ticks' = [ticks EXCEPT ![i].retries = step.retries]
        /\ UNCHANGED <<historicalData, currentReading, stats, isLoading, lastUpdated, error,
                       retryCount, loads, timeouts, effectDeps, clock, service, arrivals,
                       appended, fetchVars, normVars, statsVars, chartVars>>

\* getCurrentReading resolves in the interval callback: the reading is
\* published and appended to the window, and getEnergyStats is called on
\* the window the callback closed over plus the new reading
TickGotCurrentReading ==
  \E i \in DOMAIN ticks : \E answer \in Answers :
    LET step == Fetched(ticks[i], answer)
        newReading == step.current
    IN  /\ ~EffectPending
        /\ ticks[i].pc = "getCurrentReading"
        /\ step.done
        /\ ~newReading.thrown
        /\ failures' = FailuresAfter(answer)
        /\ currentReading' = newReading.value
        /\ lastUpdated' = clock
        /\ historicalData' = newData(historicalData, newReading.value)
        /\ ticks' = [ticks EXCEPT ![i] = [@ EXCEPT !.pc = "getEnergyStats", !.retries = 0,
                                                   !.newReading = newReading.value]]
        /\ arrivals' = Append(arrivals, newReading.value)
        /\ appended' = appended + 1
        /\ UNCHANGED <<stats, isLoading, error, retryCount, loads, timeouts, effectDeps,
                       clock, service, fetchVars, normVars, statsVars, chartVars>>

\* getEnergyStats resolves in the interval callback: setStats
TickGotStats ==
  \E i \in DOMAIN ticks : \E answer \in Answers :
    LET step == Fetched(ticks[i], answer)
        updatedStats ==
          getEnergyStatsOf(Append(ticks[i].historicalData, ticks[i].newReading), step.chargeData)
    IN  /\ ~EffectPending
        /\ ticks[i].pc = "getEnergyStats"
        /\ step.done
        /\ ~updatedStats.thrown
        /\ failures' = FailuresAfter(answer)
        /\ stats' = updatedStats.value
        /\ ticks' = RemoveAt(ticks, i)
        /\ UNCHANGED <<historicalData, currentReading, isLoading, lastUpdated, error,
                       retryCount, loads, timeouts, effectDeps, clock, service, arrivals,
                       appended, fetchVars, normVars, statsVars, chartVars>>

\* an interval callback whose catch block reports the failure as fetchData does
TickFailsLoudly ==
  \E i \in DOMAIN ticks : \E answer \in Answers :
    LET step == Fetched(ticks[i], answer)
        failed ==
          CASE ticks[i].pc = "getCurrentReading" -> step.current.thrown
            [] ticks[i].pc = "getEnergyStats" ->
                 getEnergyStatsOf(Append(ticks[i].historicalData, ticks[i].newReading),
                                  step.chargeData).thrown
    IN  /\ ~EffectPending
        /\ step.done
        /\ failed
        /\ failures' = FailuresAfter(answer)
        /\ ticks' = RemoveAt(ticks, i)
        /\ error' = FailedToLoad
        /\ UNCHANGED <<historicalData, currentReading, stats, isLoading, lastUpdated,
                       retryCount, loads, timeouts, effectDeps, clock, service, arrivals,
                       appended, fetchVars, normVars, statsVars, chartVars>>

\* the awaited call of the interval callback throws: the catch block logs
TickFails ==
  \E i \in DOMAIN ticks : \E answer \in Answers :
    LET step == Fetched(ticks[i], answer)
        failed ==
          CASE ticks[i].pc = "getCurrentReading" -> step.current.thrown
            [] ticks[i].pc = "getEnergyStats" ->
                 getEnergyStatsOf(Append(ticks[i].historicalData, ticks[i].newReading),
                                  step.chargeData).thrown
    IN  /\ ~EffectPending
        /\ step.done
        /\ failed
        /\ failures' = FailuresAfter(answer)
        /\ ticks' = RemoveAt(ticks, i)
        /\ UNCHANGED <<historicalData, currentReading, stats, isLoading, lastUpdated, error,
                       retryCount, loads, timeouts, effectDeps, clock, service, arrivals,
                       appended, fetchVars, normVars, statsVars, chartVars>>

\* the error screen is on display and its Retry button is clicked:
\* window.location.reload() starts the page afresh
RetryClick ==
  /\ ~isLoading
  /\ error # NoError \/ currentReading = Null \/ stats = Null
  /\ historicalData' = <<>>
  /\ currentReading' = Null
  /\ stats' = Null
  /\ isLoading' = TRUE
  /\ lastUpdated' = clock
  /\ error' = NoError
  /\ retryCount' = 0
  /\ loads' = <<LoadCall(0)>>
  /\ ticks' = <<>>
  /\ timeouts' = <<>>
  /\ effectDeps' = <<NoError, 0>>
  /\ arrivals' = <<>>
  /\ appended' = 0
  /\ UNCHANGED <<clock, service, failures, fetchVars, normVars, statsVars, chartVars>>

----------------------------------------------------------------------------
(* Specifications *)

\* the longest live payload the page is answered with
PageMaxLen == 2

\* the endpoint fails, or serves an empty or a short history
PageAnswersAt(now) == {Failure} \cup {Live(n) : n \in {0, PageMaxLen}}

\* the polling ticks of one behaviour, the calls suspended at one time, the
\* retryCount reached and the retry timers pending at one time
MaxTicks == 1
MaxInFlight == 2
MaxRetryCount == 4
MaxTimeouts == 1

Init == PageInit(ServiceTable(PageAnswersAt, MaxTicks, MaxFailures)) /\ FetchInit({}) /\ NormIdle /\ StatsIdle /\ ChartIdle

Next ==
  \/ RunLoadEffect
  \/ LoadFetchRetry
  \/ LoadGotHistoricalData
  \/ LoadGotCurrentReading
  \/ LoadSucceeds
  \/ LoadFails(MaxRetryCount, MaxTimeouts)
  \/ TimeoutFires(MaxInFlight)
  \/ TimerFires(MaxInFlight)
  \/ TickFetchRetry
  \/ TickGotCurrentReading
  \/ TickGotStats
  \/ TickFails
  \/ RetryClick

\* the page in front of an endpoint that fails or serves short histories
Spec == Init /\ [][Next]_vars

\* the history the endpoint serves at the start of the long run, one record
\* more than the window holds, and the ticks of the long run
LongLen == 97
LongMaxTicks == 98
LongMaxInFlight == 1

\* the endpoint serves its long history at the start and the latest record
\* from then on
LongAnswersAt(now) == IF now = StartNow THEN {Live(LongLen)} ELSE {Live(1)}

LongInit == PageInit(ServiceTable(LongAnswersAt, LongMaxTicks, 0)) /\ FetchInit({}) /\ NormIdle /\ StatsIdle /\ ChartIdle

LongNext ==
  \/ LoadGotHistoricalData
  \/ LoadGotCurrentReading
  \/ LoadSucceeds
  \/ TimerFires(LongMaxInFlight)
  \/ TickGotCurrentReading
  \/ TickGotStats

\* the page polling a healthy endpoint for longer than the window holds
SpecLong == LongInit /\ [][LongNext]_vars

NormNext ==
  \/ NormConvert
  \/ NormConvert24
  \/ NormGetCurrentReading
  \/ NormGetHistoricalData

\* the Normalizer applied to every payload of NormPayloads
InitNorm == PageInit(ServiceTable(NoAnswers, 0, 0)) /\ FetchInit({}) /\ NormInit /\ StatsIdle /\ ChartIdle

SpecNorm == InitNorm /\ [][NormNext]_vars

InitFetch == PageInit(ServiceTable(NoAnswers, 0, 0)) /\ FetchInit(FetchAnswers) /\ NormIdle /\ StatsIdle /\ ChartIdle

FetchNext ==
  \/ FetchCall
  \/ FetchRespond
  \/ FetchBackoff

\* calls of fetchApiData; every fetch() settles and every timer fires
SpecFetch ==
  /\ InitFetch
  /\ [][FetchNext]_vars
  /\ WF_vars(FetchRespond) /\ WF_vars(FetchBackoff)

----------------------------------------------------------------------------
(* getEnergyStats on its own *)

\* the Reading the Normalizer makes of a record sampled at noon
ReadingOf(battery, solarVoltage, solarAmps, shunt) ==
  convertApiDataToReading(RawRecordOf(GoodDate, GoodTime, battery, solarVoltage, solarAmps),
                          PowerRecord, ChargeDataOf(shunt), StartNow).value

\* readings with a solar power of 50, 120, 80, -5, 8.5 and 295 W
Reading50 == ReadingOf(JStr(<<"1", "2", ".", "3", "0">>), JStr(<<"5", "0", ".", "0", "0">>), JStr(<<"1", ".", "0", "0">>), JStr(<<"-", "2", ".", "5">>))
Reading120 == ReadingOf(JStr(<<"1", "4", ".", "4", "0">>), JStr(<<"1", "2", "0", ".", "0", "0">>), JStr(<<"1", ".", "0", "0">>), JStr(<<"2", ".", "5">>))
Reading80 == ReadingOf(JStr(<<"1", "2", ".", "3", "0">>), JStr(<<"4", "0", ".", "0", "0">>), JStr(<<"2", ".", "0", "0">>), JStr(<<"0">>))
ReadingNegative == ReadingOf(JStr(<<"9", ".", "0", "0">>), JStr(<<"-", "5", ".", "0", "0">>), JStr(<<"1", ".", "0", "0">>), JStr(<<"-", "2", ".", "5">>))
ReadingSmall == ReadingOf(JStr(<<"1", "0", ".", "5", "0">>), JStr(<<"8", ".", "5", "0">>), JStr(<<"1", ".", "0", "0">>), JStr(<<"2", ".", "5">>))

Reading295 == ReadingOf(JStr(<<"1", "2", ".", "3", "0">>), JStr(<<"5", "9", ".", "0", "0">>), JStr(<<"5", ".", "0", "0">>), JStr(<<"-", "2", ".", "5">>))

StatsReadings ==
  {Reading50, Reading120, Reading80, ReadingNegative, ReadingSmall, Reading295}

\* the longest window handed to the Aggregator on its own
StatsMaxLen == 3

StatsWindows == UNION {[1..n -> StatsReadings] : n \in 0..StatsMaxLen}

\* upstream counters: the mock's, the live ones, counters that round up and
\* down, an answer without counters and a null
StatsCounters ==
  {mockChargeData, liveChargeData,
   JObj([kwh_positive |-> JStr(<<"1", ".", "2", "3", "4", "5">>), kwh_negative |-> JStr(<<"-", "0", ".", "3", "0", "0", "4">>)]),
   JObj([last_shunt_v |-> JStr(<<"-", "2", ".", "5">>)]),
   JNull}

\* what the request of getEnergyStats comes to: an answer or a failure
StatsResponses == {Json(c) : c \in StatsCounters} \cup {NetworkError}

\* the values six calls of Math.random() return
RandomDraws ==
  {[i \in 1..6 |-> r] : r \in Randoms}
  \cup {<<Zero, Rat(1, 2), Rat(99, 100), Rat(99, 100), Rat(1, 2), Zero>>}

StatsInit ==
  /\ sData \in StatsWindows
  /\ sResponse \in StatsResponses
  /\ sOut = NoCall
  /\ sPrev = NoCall

\* apiData[3] of what fetchApiData resolves to: the answer's counters, or
\* the mock payload's once its requests have failed
chargeDataOf(response) ==
  IF response.kind = "json" THEN response.data ELSE mockChargeData

\* the outcome of a call of getEnergyStats(data), and the array as the call
\* leaves it, none of reduce, filter and forEach changing it
StatsOutcome(op, res) == [op |-> op, res |-> res, data |-> sData]

\* the call returns to a caller that keeps the outcome of the call before
StatsReturn ==
  /\ sData' = sOut'.data
  /\ sPrev' = sOut
  /\ UNCHANGED <<sResponse, pageVars, fetchVars, normVars, chartVars>>

StatsGetEnergyStats ==
  /\ sOut' = StatsOutcome("getEnergyStats",
                          getEnergyStatsOf(sData, chargeDataOf(sResponse)))
  /\ StatsReturn

StatsGetEnergyStats24 ==
  /\ sOut' = StatsOutcome("getEnergyStats24",
                          getEnergyStats24Of(sData, chargeDataOf(sResponse)))
  /\ StatsReturn

StatsGetEnergyStats001 ==
  \E random \in RandomDraws :
    /\ sOut' = StatsOutcome("getEnergyStats001",
                            getEnergyStats001Of(sData, sResponse, random))
    /\ StatsReturn

StatsNext ==
  \/ StatsGetEnergyStats
  \/ StatsGetEnergyStats24
  \/ StatsGetEnergyStats001

\* the Aggregator applied to every window of StatsWindows
InitStats == PageInit(ServiceTable(NoAnswers, 0, 0)) /\ FetchInit({}) /\ NormIdle /\ StatsInit /\ ChartIdle

SpecStats == InitStats /\ [][StatsNext]_vars

----------------------------------------------------------------------------
(* The chart's time-range filter, src/unnamed/part_004 *)

\* the switch of filterDataByTimeRange: the width of the window in ms
timeInMillis(range) ==
  CASE range = "1h" -> 60 * 60 * 1000
    [] range = "6h" -> 6 * 60 * 60 * 1000
    [] range = "12h" -> 12 * 60 * 60 * 1000
    [] range = "24h" -> 24 * 60 * 60 * 1000
    [] OTHER -> 6 * 60 * 60 * 1000

\* a filter that keeps the reading on the edge of the window
filterDataByTimeRangeInclusive(data, range, now) ==
  LET keep(item) == Ge(item.timestamp, Int2Num(now - timeInMillis(range)))
  IN  SelectSeq(data, keep)

\* data.filter(item => item.timestamp > (now - timeInMillis))
filterDataByTimeRange(data, range, now) ==
  LET keep(item) == Gt(item.timestamp, Int2Num(now - timeInMillis(range)))
  IN  SelectSeq(data, keep)

\* the values of the four TabsTrigger, and strings that are none of them
TabValues == {"1h", "6h", "12h", "24h"}
ChartRanges == TabValues \cup {"7d", ""}

\* Date.now() of a render: the start, a millisecond and half an hour later
ChartNows == {StartNow, StartNow + 1, StartNow + 30 * 60000}

\* timestamps on both sides of and on the edge of every window, one in the
\* future and the NaN of a record whose date did not parse
ChartTimestamps ==
  {Int2Num(StartNow - 30 * 60000),
   Int2Num(StartNow - 3600000), Int2Num(StartNow - 3600000 + 1),
   Int2Num(StartNow - 6 * 3600000), Int2Num(StartNow - 6 * 3600000 + 1),
   Int2Num(StartNow - 12 * 3600000),
   Int2Num(StartNow - 24 * 3600000 + 1), Int2Num(StartNow - 30 * 3600000),
   Int2Num(StartNow + 3600000), NaN}

\* readings of the chart: one per timestamp, and two that share a timestamp
\* with another reading
ChartReadings ==
  {[Reading50 EXCEPT !.timestamp = t] : t \in ChartTimestamps}
  \cup {[Reading120 EXCEPT !.timestamp = Int2Num(StartNow - 30 * 60000)]}

\* the longest array handed to the chart
ChartMaxLen == 3

ChartWindows == UNION {[1..n -> ChartReadings] : n \in 0..ChartMaxLen}

\* the first render: useState("6h"), line 92, and filteredData, line 119
ChartInit ==
  /\ cData \in ChartWindows
  /\ timeRange = "6h"
  /\ cNow \in ChartNows
  /\ filteredData = filterDataByTimeRange(cData, "6h", cNow)

\* onValueChange={setTimeRange}: a tab is chosen and the chart renders again
ChartSetTimeRange ==
  \E value \in TabValues, now \in ChartNows :
    /\ now >= cNow
    /\ timeRange' = value
    /\ cNow' = now
    /\ filteredData' = filterDataByTimeRange(cData, value, now)
    /\ UNCHANGED <<cData, pageVars, fetchVars, normVars, statsVars>>

\* filterDataByTimeRange called with a string that is no tab's value
ChartFilterOtherRange ==
  \E range \in ChartRanges \ TabValues, now \in ChartNows :
    /\ now >= cNow
    /\ timeRange' = range
    /\ cNow' = now
    /\ filteredData' = filterDataByTimeRange(cData, range, now)
    /\ UNCHANGED <<cData, pageVars, fetchVars, normVars, statsVars>>

ChartNext ==
  \/ ChartSetTimeRange
  \/ ChartFilterOtherRange

\* the filter applied to every array of ChartWindows
InitChart == PageInit(ServiceTable(NoAnswers, 0, 0)) /\ FetchInit({}) /\ NormIdle /\ StatsIdle /\ ChartInit

SpecChart == InitChart /\ [][ChartNext]_vars

----------------------------------------------------------------------------
(* Properties of the window, src/src/pages/Index.tsx *)

\* C1: once more than WindowCap readings have been appended to the window,
\* one per polling tick, the window holds exactly the last WindowCap of
\* them, unchanged and in the order they arrived, the oldest first
WindowHoldsLastAppended ==
  appended > WindowCap =>
    /\ Len(historicalData) = WindowCap
    /\ \A k \in 1..WindowCap :
         historicalData[k] = arrivals[Len(arrivals) - WindowCap + k]

\* more than WindowCap ticks have appended their readings, all different
WindowHasEvicted ==
  /\ appended > WindowCap
  /\ Len(historicalData) = WindowCap
  /\ historicalData[1].timestamp # historicalData[WindowCap].timestamp
  /\ historicalData[WindowCap] = currentReading

\* C2: in every state of the page the window holds at most WindowCap
\* readings, also right after the initial load has stored the list that
\* getHistoricalData made of the payload
WindowWithinCapacity == Len(historicalData) <= WindowCap

\* C3: at most one call of fetchData or of the interval callback is
\* suspended on the upstream at any time: none starts while another waits
AtMostOneFetchInFlight == Len(loads) + Len(ticks) <= 1

\* C5: error stays null in every state of the page, so that the "Failed to
\* load energy data" screen is never on display
ErrorStaysNull == error = NoError

----------------------------------------------------------------------------
(* Properties of fetchApiData, src/src/services/energyData.ts *)

\* the endpoint's answer passes the validation of fetchApiData
PassesValidation(answer) == answer.kind \in {"live", "nullrecord"}

\* a call never rejects and makes at most maxRetries fetches; when it has
\* returned, every fetch before its last was answered by a failure or by
\* invalid data, and its result is the data of the last fetch when that is
\* valid and the mock payload after maxRetries fetches otherwise
FetchReturnsFirstValidOrMock ==
  /\ fPc # "rejected"
  /\ Len(fFetches) <= maxRetries
  /\ fPc = "returned" =>
       /\ Len(fFetches) >= 1
       /\ \A k \in 1..(Len(fFetches) - 1) : ~PassesValidation(fFetches[k])
       /\ ValidStructure(fResult)
       /\ IF PassesValidation(fFetches[Len(fFetches)])
          THEN fResult = Upstream(fFetches[Len(fFetches)], StartNow).data
          ELSE Len(fFetches) = maxRetries /\ fResult = generateMockData(StartNow)

\* C4: every call of fetchApiData, each of whose fetches settles, returns a
\* payload and never rejects: after at most 3 fetches it returns the first
\* valid response, or the mock payload when all 3 fetches fail
FetchApiDataAlwaysReturns ==
  /\ []FetchReturnsFirstValidOrMock
  /\ (fPc = "fetching") ~> (fPc = "returned")

\* a call has returned the mock payload after three failed fetches
FetchFellBackToMock ==
  /\ fPc = "returned"
  /\ Len(fFetches) = maxRetries
  /\ \A k \in 1..maxRetries : ~PassesValidation(fFetches[k])
  /\ fResult = generateMockData(StartNow)

----------------------------------------------------------------------------
(* Properties of the Normalizer, src/src/services/energyData.ts *)

\* the last call was a convertApiDataToReading, of either revision
Converted == nOut.op \in {"convertApiDataToReading", "convertApiDataToReading24"}

\* the record the last convertApiDataToReading was handed
RecordIn == At(At(nIn, 0), nOut.i)

\* the factor between mpptData[2] and the batteryVoltage of the revision
VoltageFactor == IF nOut.op = "convertApiDataToReading24" THEN Int2Num(2) ELSE Int2Num(1)

\* C6: for every payload that passes the validation of fetchApiData,
\* convertApiDataToReading on its records and getCurrentReading return a
\* Reading and do not throw
NormalizerNeverThrows ==
  (Converted \/ nOut.op = "getCurrentReading") => ~nOut.res.thrown

\* the field is a string and the whole of it is a number
IsNumeric(value) == value.t = "str" /\ IsNumberText(value.v)

\* the field starts, after blanks and a sign, with a digit, with a point
\* and a digit, or with Infinity
StartsWithNumber(value) ==
  /\ value.t = "str"
  /\ LET at(i) ==
           \/ i <= Len(value.v) /\ IsDigit(value.v[i])
           \/ i + 1 <= Len(value.v) /\ value.v[i] = "." /\ IsDigit(value.v[i + 1])
           \/ i + 7 <= Len(value.v) /\ SubSeq(value.v, i, i + 7) = InfinityWord
         signed(i) ==
           at(IF i <= Len(value.v) /\ value.v[i] \in {"-", "+"} THEN i + 1 ELSE i)
     IN  signed(SkipBlanks(value.v, 1))

\* the Reading returned reads 0 for every field of the record and of the
\* charge object that fails `Reads`
ZeroWhereNot(Reads(_)) ==
  /\ ~nOut.res.thrown
  /\ ~Reads(At(RecordIn, 2)) => nOut.res.value.chargingVoltage = Zero
  /\ ~Reads(At(RecordIn, 3)) => nOut.res.value.solarVoltage = Zero
  /\ ~Reads(At(RecordIn, 5)) => nOut.res.value.chargingAmps = Zero
  /\ ~Reads(Get(At(nIn, 3), "last_shunt_v")) /\ IsFinite(nOut.res.value.chargingVoltage)
       => nOut.res.value.loadWatts = Zero

\* C7 as the specification states it: normalization does not fail and
\* reads 0 for every field that is missing or is not a number
NonNumericFieldsReadZero ==
  Converted /\ IsArray(RecordIn) => ZeroWhereNot(IsNumeric)

\* C7: normalization of a record does not fail and reads 0 for every field
\* that is missing or does not start with a number; a field that starts
\* with a number and goes on with other text reads as that number: "12.3V"
\* as 12.3 and "2.5A" as 2.5
FieldsWithoutNumberReadZero ==
  Converted /\ IsArray(RecordIn) =>
    /\ ZeroWhereNot(StartsWithNumber)
    /\ At(RecordIn, 2) = JStr(<<"1", "2", ".", "3", "V">>)
         => nOut.res.value.chargingVoltage = Times(Rat(123, 10), VoltageFactor)
    /\ At(RecordIn, 5) = JStr(<<"2", ".", "5", "A">>)
         => nOut.res.value.chargingAmps = Rat(25, 10)

\* a record with the battery voltage "12.3V" and the solar voltage "err"
\* has been normalized to 12.3 V and 0 V
ReadNumberBeforeText ==
  /\ nOut.op = "convertApiDataToReading"
  /\ At(RecordIn, 2) = JStr(<<"1", "2", ".", "3", "V">>)
  /\ At(RecordIn, 3) = JStr(<<"e", "r", "r">>)
  /\ ~nOut.res.thrown
  /\ nOut.res.value.chargingVoltage = Rat(123, 10)
  /\ nOut.res.value.solarVoltage = Zero

\* the field is three runs of digits separated by sep
ParsesAsThree(value, sep) ==
  /\ value.t = "str"
  /\ Len(split(value.v, sep)) = 3
  /\ \A i \in 1..3 :
       split(value.v, sep)[i] # <<>> /\ ~isNaN(Number(split(value.v, sep)[i]))

\* C8: the timestamp of a Reading is the local time its record's date and
\* time fields spell when both are present and parse; when either is absent
\* or does not parse it is the wall clock of the call, never NaN; nothing
\* is thrown
TimestampEmbeddedOrWallClock ==
  nOut.op = "convertApiDataToReading" /\ IsArray(RecordIn) =>
    /\ ~nOut.res.thrown
    /\ ~isNaN(nOut.res.value.timestamp)
    /\ At(RecordIn, 0) = GoodDate /\ At(RecordIn, 1) = GoodTime
         => nOut.res.value.timestamp = Int2Num(12 * 3600000)
    /\ ~(ParsesAsThree(At(RecordIn, 0), "-") /\ ParsesAsThree(At(RecordIn, 1), ":"))
         => nOut.res.value.timestamp = Int2Num(nNow)

\* the linear map of v from [minV, maxV] onto [0, 100], clamped
ClampedPercentage(v, minV, maxV) ==
  IF Le(v, minV) THEN Zero
  ELSE IF Ge(v, maxV) THEN Int2Num(100)
  ELSE Times(DividedBy(Minus(v, minV), Minus(maxV, minV)), Int2Num(100))

\* C9: the batteryPercentage of every Reading is the clamped linear map of
\* its battery voltage, from (10.5, 14.4) on the raw voltage and from
\* (20, 29) on the doubled voltage of the 24 V revision: within [0, 100],
\* 0 at or below the lower voltage and 100 at or above the upper
BatteryPercentageIsClampedMap ==
  Converted /\ ~nOut.res.thrown =>
    /\ nOut.res.value.batteryPercentage =
         IF nOut.op = "convertApiDataToReading24"
         THEN ClampedPercentage(nOut.res.value.chargingVoltage, Int2Num(20), Int2Num(29))
         ELSE ClampedPercentage(nOut.res.value.chargingVoltage, Rat(105, 10), Rat(144, 10))
    /\ Ge(nOut.res.value.batteryPercentage, Zero)
    /\ Le(nOut.res.value.batteryPercentage, Int2Num(100))

\* a voltage below the range has been normalized to 0 per cent
BatteryPercentageClampedAtZero ==
  /\ nOut.op = "convertApiDataToReading"
  /\ ~nOut.res.thrown
  /\ nOut.res.value.chargingVoltage = Int2Num(9)
  /\ nOut.res.value.batteryPercentage = Zero

\* C10: the solarPower of every Reading is the product of the solarVoltage
\* and the chargingAmps of that Reading
SolarPowerIsProduct ==
  Converted /\ ~nOut.res.thrown =>
    nOut.res.value.solarPower =
      Times(nOut.res.value.solarVoltage, nOut.res.value.chargingAmps)

\* 40 V at -0.21 A has been normalized to -8.4 W
SolarPowerOfFraction ==
  /\ Converted
  /\ ~nOut.res.thrown
  /\ nOut.res.value.solarVoltage = Int2Num(40)
  /\ nOut.res.value.chargingAmps = Rat(-21, 100)
  /\ nOut.res.value.solarPower = Rat(-84, 10)

\* the shunt value the last convertApiDataToReading read from the charge object
ShuntIn == batteryLoadOf(At(nIn, 3))

\* C11: when the shunt value is negative the inverterLoad of the Reading
\* is abs(shuntValue * batteryVoltage): the record 12.30 V, 40.00 V x
\* 1.00 A with last_shunt_v -2.5 gives batteryVoltage 12.30, solarPower
\* 40.00 and inverterLoad 30.75
InverterLoadOnDischarge ==
  nOut.op = "convertApiDataToReading" /\ IsArray(RecordIn) /\ Lt(ShuntIn, Zero) =>
    /\ nOut.res.value.inverterLoad = MathAbs(Times(ShuntIn, nOut.res.value.chargingVoltage))
    /\ RecordIn = GoodRecord /\ ShuntIn = Rat(-25, 10) =>
         /\ nOut.res.value.chargingVoltage = Rat(1230, 100)
         /\ nOut.res.value.solarPower = Int2Num(40)
         /\ nOut.res.value.inverterLoad = Rat(3075, 100)

\* C12: when the shunt value is 0 or positive the inverterLoad of the
\* Reading is abs(solarPower - shuntValue * batteryVoltage), which for the
\* shunt value 0 is the solar power
InverterLoadOnCharge ==
  nOut.op = "convertApiDataToReading" /\ IsArray(RecordIn) /\ Ge(ShuntIn, Zero) =>
    /\ nOut.res.value.inverterLoad =
         MathAbs(Minus(nOut.res.value.solarPower,
                       Times(ShuntIn, nOut.res.value.chargingVoltage)))
    /\ ShuntIn = Zero => nOut.res.value.inverterLoad = MathAbs(nOut.res.value.solarPower)

\* C13: the solarVoltage, chargingVoltage, chargingAmps, solarPower and
\* inverterLoad of every Reading are 0 or more, whatever the strings of
\* the record are
ReadingIsNonNegative ==
  nOut.op = "convertApiDataToReading" /\ ~nOut.res.thrown =>
    /\ Ge(nOut.res.value.solarVoltage, Zero)
    /\ Ge(nOut.res.value.chargingVoltage, Zero)
    /\ Ge(nOut.res.value.chargingAmps, Zero)
    /\ Ge(nOut.res.value.solarPower, Zero)
    /\ Ge(nOut.res.value.inverterLoad, Zero)

----------------------------------------------------------------------------
(* Properties of the Aggregator, getEnergyStats *)

\* the call the Aggregator last answered was of the current or of the 24 V
\* revision and returned a snapshot
Aggregated ==
  /\ sOut.op \in {"getEnergyStats", "getEnergyStats24"}
  /\ ~sOut.res.thrown

\* the largest solarPower of the readings of a non-empty window
MaxSolarPower(data) ==
  CHOOSE p \in {data[i].solarPower : i \in 1..Len(data)} :
    \A i \in 1..Len(data) : Ge(p, data[i].solarPower)

\* C14: for a non-empty window peakPower is the largest solar power of the
\* readings of the window, rounded to the nearest integer; the powers
\* 50, 120, 80 give peakPower 120
PeakPowerIsWindowMaximum ==
  Aggregated /\ sData # <<>> =>
    /\ sOut.res.value.peakPower = MathRound(MaxSolarPower(sData))
    /\ sData = <<Reading50, Reading120, Reading80>> =>
         sOut.res.value.peakPower = Int2Num(120)

\* the most recent reading of a window
LastOf(data) == data[Len(data)]

\* C15: currentPowerUsage, currentLoad and batteryPercentage are the rounded
\* solar power, load power (loadWatts in the current revision, inverterLoad
\* in the 24 V revision) and battery percentage of the last reading of the
\* window, whatever the readings before it are
CurrentFiguresFromLastReading ==
  Aggregated =>
    /\ sOut.res.value.currentPowerUsage = MathRound(LastOf(sData).solarPower)
    /\ sOut.res.value.batteryPercentage = MathRound(LastOf(sData).batteryPercentage)
    /\ sOut.op = "getEnergyStats" =>
         sOut.res.value.currentLoad = MathRound(LastOf(sData).loadWatts)
    /\ sOut.op = "getEnergyStats24" =>
         sOut.res.value.currentLoad = MathRound(LastOf(sData).inverterLoad)

\* a window whose last reading differs from the readings before it in all
\* three figures has been aggregated: 50 W, 62 W of load and 46 %, where the
\* first reading has 120 W, 72 W and 100 %
LastReadingDiffersFromFirst ==
  /\ Aggregated /\ sOut.op = "getEnergyStats"
  /\ sData = <<Reading120, ReadingSmall, Reading50>>
  /\ sOut.res.value.currentPowerUsage = Int2Num(50)
  /\ sOut.res.value.currentLoad = Int2Num(62)
  /\ sOut.res.value.batteryPercentage = Int2Num(46)
  /\ MathRound(Reading120.solarPower) = Int2Num(120)
  /\ MathRound(Reading120.loadWatts) = Int2Num(72)
  /\ MathRound(Reading120.batteryPercentage) = Int2Num(100)

\* the counter `key` of the answer of the upstream, 0 when it is no number
CounterOf(key) == safeParseFloat(Get(chargeDataOf(sResponse), key))

\* C16: dailyEnergyCharged is round(kwh_positive * 1000) and
\* dailyEnergyDischarged is round(abs(kwh_negative) * 1000) of the upstream
\* counters, whatever the window holds; the counters "1.25" and "-0.75"
\* give 1250 and 750
DailyEnergyFromCounters ==
  Aggregated =>
    /\ sOut.res.value.dailyEnergyCharged =
         MathRound(Times(CounterOf("kwh_positive"), Int2Num(1000)))
    /\ sOut.res.value.dailyEnergyDischarged =
         MathRound(Times(MathAbs(CounterOf("kwh_negative")), Int2Num(1000)))
    /\ chargeDataOf(sResponse) = mockChargeData =>
         /\ sOut.res.value.dailyEnergyCharged = Int2Num(1250)
         /\ sOut.res.value.dailyEnergyDischarged = Int2Num(750)

\* the counters "1.2345" and "-0.3004" have been aggregated, with a window
\* of three readings, to 1235 Wh (rounded up) and 300 Wh (rounded down)
CountersRounded ==
  /\ Aggregated
  /\ Len(sData) = StatsMaxLen
  /\ CounterOf("kwh_positive") = Rat(12345, 10000)
  /\ sOut.res.value.dailyEnergyCharged = Int2Num(1235)
  /\ sOut.res.value.dailyEnergyDischarged = Int2Num(300)

\* C17: the Aggregator called on an empty window fails with a dedicated
\* invalid-argument error, not with the error of reading a field of the
\* missing last reading
EmptyWindowIsInvalidArgument ==
  sOut.op \in {"getEnergyStats", "getEnergyStats24"} /\ sData = <<>> =>
    /\ sOut.res.thrown
    /\ sOut.res.error = "InvalidArgument"

\* the last two calls were calls of the same revision of getEnergyStats
CalledTwice == sOut.op # "none" /\ sOut.op = sPrev.op

HasCounters == sResponse.kind = "json" /\ ~Nullish(sResponse.data)

----------------------------------------------------------------------------
(* Properties of the page's polling, src/src/pages/Index.tsx *)

\* C19: when a polling tick that appended a reading to the window has
\* completed, stats is the aggregate of exactly the readings the window
\* holds, at most WindowCap of them, so that no figure of it reflects a
\* reading the window has evicted
StatsAggregateTheWindow ==
  appended > 0 /\ ticks = <<>> =>
    /\ Len(historicalData) <= WindowCap
    /\ stats = getEnergyStatsOf(historicalData, liveChargeData).value

\* the timestamps of the readings never decrease along the window
OldestFirst(window) ==
  \A k \in 1..(Len(window) - 1) : Le(window[k].timestamp, window[k + 1].timestamp)

\* C20: the window the page holds and every window it hands to
\* getEnergyStats, after the initial load and after a polling tick, is
\* ordered oldest first: timestamps never decrease along it, so that its
\* last element is the most recent reading
WindowIsOldestFirst ==
  /\ OldestFirst(historicalData)
  /\ \A i \in DOMAIN loads :
       loads[i].pc = "getEnergyStats" =>
         OldestFirst(Append(loads[i].data, loads[i].reading))
  /\ \A i \in DOMAIN ticks :
       ticks[i].pc = "getEnergyStats" =>
         OldestFirst(Append(ticks[i].historicalData, ticks[i].newReading))

----------------------------------------------------------------------------
(* Properties of the validation of fetchApiData *)

\* the endpoint's answer parses, but data[0] or data[1] is no array or
\* data[3] is missing
StructurallyInvalid(answer) ==
  LET invalid(response) ==
        /\ response.kind = "json"
        /\ \/ ~IsArray(At(response.data, 0))
           \/ ~IsArray(At(response.data, 1))
           \/ Nullish(At(response.data, 3))
  IN  invalid(Upstream(answer, StartNow))

\* the fetches of the call that did not give it its result
FailedFetches ==
  {k \in 1..Len(fFetches) : StructurallyInvalid(fFetches[k]) \/ fFetches[k] = Failure}

\* C21: a response that parses but is structurally invalid is handled as a
\* failed request is: the turn of the loop it ends is the turn a failed
\* request ends, it counts as one of the maxRetries attempts, its data is
\* never the result of the call, and after maxRetries of them the call
\* returns the mock payload
InvalidPayloadIsAFailedRequest ==
  /\ \A answer \in DOMAIN fetched :
       StructurallyInvalid(answer) =>
         \A retries \in 0..(maxRetries - 1) :
           fetched[answer][retries] = fetched[Failure][retries]
  /\ fRetries = Cardinality(FailedFetches)
  /\ fPc = "returned" =>
       /\ \A k \in 1..Len(fFetches) :
            StructurallyInvalid(fFetches[k]) =>
              fResult # Upstream(fFetches[k], StartNow).data
       /\ Cardinality(FailedFetches) = maxRetries => fResult = generateMockData(StartNow)

\* a call has returned the mock payload after data[0] no array, data[1] no
\* array and a missing data[3]
ThreeInvalidPayloads ==
  /\ fPc = "returned"
  /\ fFetches = <<Invalid(3), Invalid(4), Invalid(5)>>
  /\ fRetries = maxRetries
  /\ fResult = generateMockData(StartNow)

----------------------------------------------------------------------------
(* Properties of the figures of the StatsSnapshot *)

\* the sum of the solar power of the first n readings of a window, of those
\* only that exceed 10 W
RECURSIVE SumAboveThreshold(_, _)
SumAboveThreshold(data, n) ==
  IF n = 0 THEN Zero
  ELSE Plus(SumAboveThreshold(data, n - 1),
            IF Gt(data[n].solarPower, Int2Num(10)) THEN data[n].solarPower ELSE Zero)

\* x rounded to 2 decimal places
TwoDecimals(x) == DividedBy(MathRound(Times(x, Int2Num(100))), Int2Num(100))

\* C22: solarGeneration is the sum of the solar power of the readings of the
\* window that exceed 10 W, divided by 60000 and rounded to 2 decimal
\* places; a reading of 10 W or less adds nothing to it
SolarGenerationAboveThreshold ==
  Aggregated =>
    sOut.res.value.solarGeneration =
      TwoDecimals(DividedBy(SumAboveThreshold(sData, Len(sData)), Int2Num(60000)))

\* x is a whole number
IsWhole(x) == IsFinite(x) /\ x.n % x.d = 0

\* C23: every figure of a StatsSnapshot is a whole number, but
\* solarGeneration and totalCharge, which have 2 decimal places; totalCharge
\* is (kwh_positive * 1000 - abs(kwh_negative) * 1000) / 1000 rounded to 2
\* decimal places, of the charged and discharged energy before they are
\* rounded
SnapshotFiguresRounded ==
  Aggregated =>
    /\ IsWhole(sOut.res.value.dailyEnergyCharged)
    /\ IsWhole(sOut.res.value.dailyEnergyDischarged)
    /\ IsWhole(sOut.res.value.currentPowerUsage)
    /\ IsWhole(sOut.res.value.currentLoad)
    /\ IsWhole(sOut.res.value.peakPower)
    /\ IsWhole(sOut.res.value.batteryPercentage)
    /\ IsWhole(Times(sOut.res.value.solarGeneration, Int2Num(100)))
    /\ IsWhole(Times(sOut.res.value.totalCharge, Int2Num(100)))
    /\ sOut.res.value.totalCharge =
         TwoDecimals(DividedBy(Minus(Times(CounterOf("kwh_positive"), Int2Num(1000)),
                                     Times(MathAbs(CounterOf("kwh_negative")), Int2Num(1000))),
                               Int2Num(1000)))

\* the counters "1.2345" and "-0.3004" have been aggregated to a totalCharge
\* of 0.93, where the rounded 1235 and 300 would give 0.94, with a window
\* whose last reading has the fractional power of 8.5 W
TotalChargeFromUnrounded ==
  /\ Aggregated
  /\ CounterOf("kwh_positive") = Rat(12345, 10000)
  /\ sOut.res.value.totalCharge = Rat(93, 100)
  /\ sData = <<Reading295, ReadingSmall>>
  /\ sOut.res.value.currentPowerUsage = Int2Num(9)
  /\ sOut.res.value.solarGeneration \in {Zero, Rat(1, 100)}

----------------------------------------------------------------------------
(* Properties of the initial load, src/src/pages/Index.tsx *)

\* C24: the initial load is tried at most 4 times, the first attempt and 3
\* automatic retries: the attempts that have failed and those under way are
\* never more than 4, and once error is set isLoading is false and no load
\* attempt is under way or due until Retry is clicked
LoadGivesUpAfterThreeRetries ==
  /\ retryCount + Len(loads) <= 4
  /\ error # NoError =>
       /\ ~isLoading
       /\ loads = <<>>
       /\ timeouts = <<>>
       /\ ~EffectPending

----------------------------------------------------------------------------
(* Properties of the polling ticks, src/src/pages/Index.tsx *)

\* the interval callback returns at once: there is an error or no reading
Gated == error # NoError \/ currentReading = Null

\* C25: while error is not null or currentReading is null, no polling tick
\* starts a fetch (its first, a retry of it, or the one of getEnergyStats)
\* or changes currentReading, lastUpdated, the window or stats
TicksGatedThroughout ==
  [][Gated =>
       /\ Len(ticks') <= Len(ticks)
       /\ ~TickFetchRetry
       /\ ~TickGotCurrentReading
       /\ ~TickGotStats]_vars

\* C26: a polling tick that fails is all-or-nothing and silent: the tick
\* whose getCurrentReading or getEnergyStats fails has published nothing,
\* and its failure leaves error, currentReading, lastUpdated, the window and
\* stats as they are
FailingTickChangesNothing ==
  [][TickFails =>
       /\ \A i \in DOMAIN ticks :
            ticks' = RemoveAt(ticks, i) =>
              /\ ticks[i].pc = "getCurrentReading"
              /\ ticks[i].newReading = Null
       /\ UNCHANGED <<error, currentReading, lastUpdated, historicalData, stats>>]_vars

\* a polling tick has started, on a page that shows a reading and no error,
\* and has failed: nothing has been published since the interval fired
TickHasFailed ==
  /\ clock > StartNow
  /\ ticks = <<>>
  /\ appended = 0
  /\ lastUpdated = StartNow
  /\ currentReading # Null
  /\ error = NoError
  /\ failures = 0

----------------------------------------------------------------------------
(* Properties of what the initial load publishes *)

\* C27: the initial load publishes atomically: a step of a load (not of a
\* polling tick, not the reload of the page) changes historicalData,
\* currentReading or stats only when getHistoricalData, getCurrentReading
\* and getEnergyStats of one fetchData have succeeded in that order; it then
\* sets the three together, to a non-empty history, that reading and the
\* stats, with error null and retryCount 0; a load that fails changes none
LoadPublishesAtomically ==
  [][LET published == <<historicalData, currentReading, stats>>
         \* the step completes a fetchData whose three calls have succeeded
         succeeds ==
           \E i \in DOMAIN loads :
             /\ loads[i].pc = "getEnergyStats"
             /\ loads[i].data # <<>>
             /\ loads' = RemoveAt(loads, i)
             /\ historicalData' = loads[i].data
             /\ currentReading' = loads[i].reading
             /\ stats' # Null
             /\ error' = NoError
             /\ retryCount' = 0
     IN  /\ (published' # published /\ ticks' = ticks /\ ~RetryClick) => succeeds
         /\ LoadFails(MaxRetryCount, MaxTimeouts) => published' = published]_vars

\* a load has published history, reading and stats, and a later load has
\* failed and left them in place
LoadFailedAfterPublishing ==
  /\ retryCount >= 1
  /\ loads = <<>>
  /\ historicalData # <<>>
  /\ currentReading # Null
  /\ stats # Null
  /\ appended = 0
  /\ clock = StartNow

----------------------------------------------------------------------------
(* Properties of getHistoricalData and getCurrentReading *)

\* the MPPT records of the payload the service function was applied to
RecordsIn == At(nIn, 0).v

\* C28: getHistoricalData returns one Reading for every MPPT record of the
\* payload, in the reverse of the order of the records, each the Reading
\* of its record whatever power record it is paired with; when a record
\* cannot be converted it returns the empty list and does not reject
HistoricalDataIsReversedRecords ==
  nOut.op = "getHistoricalData" =>
    IF \E i \in 1..Len(RecordsIn) : Nullish(RecordsIn[i])
    THEN nOut.res = <<>>
    ELSE /\ Len(nOut.res) = Len(RecordsIn)
         /\ \A k \in 1..Len(RecordsIn) :
              \A power \in {JUndef, PowerRecord, EarlierPowerRecord} :
                nOut.res[k] =
                  convertApiDataToReading(RecordsIn[Len(RecordsIn) + 1 - k], power,
                                          At(nIn, 3), nNow).value

\* getHistoricalData has been applied to two different records, the newest
\* first, with one power record, and has returned the oldest first
ReversedTwoRecords ==
  /\ nOut.op = "getHistoricalData"
  /\ RecordsIn = <<GoodRecord, EarlierRecord>>
  /\ At(nIn, 1).v = <<PowerRecord>>
  /\ Len(nOut.res) = 2
  /\ nOut.res[1].timestamp = Int2Num(11 * 3600000 + 45 * 60000)
  /\ nOut.res[2].timestamp = Int2Num(12 * 3600000)

\* C29: for one payload getCurrentReading normalizes the record that
\* getHistoricalData places last, so the current reading is never older
\* than a historical reading of that payload
CurrentReadingIsLastHistorical ==
  nOut.op = "getCurrentReading" /\ getHistoricalDataOf(nIn, nNow) # <<>> =>
    /\ ~nOut.res.thrown
    /\ nOut.res.value = LastOf(getHistoricalDataOf(nIn, nNow))
    /\ \A k \in 1..Len(getHistoricalDataOf(nIn, nNow)) :
         ~Lt(nOut.res.value.timestamp, getHistoricalDataOf(nIn, nNow)[k].timestamp)

----------------------------------------------------------------------------
(* C30 *)

RECURSIVE IsSubsequence(_, _)
IsSubsequence(a, b) ==
  IF a = <<>> THEN TRUE
  ELSE IF b = <<>> THEN FALSE
  ELSE IF Head(a) = Head(b) THEN IsSubsequence(Tail(a), Tail(b))
  ELSE IsSubsequence(a, Tail(b))

\* the hours of a range, an unrecognised one counting as 6h
HoursOf(range) ==
  IF range = "1h" THEN 1 ELSE IF range = "12h" THEN 12
  ELSE IF range = "24h" THEN 24 ELSE 6

\* the positions of the readings younger than the range
InRange(range) ==
  {i \in 1..Len(cData) :
     Gt(cData[i].timestamp, Int2Num(cNow - HoursOf(range) * 3600000))}

\* C30: the chart's filter returns, in unchanged order, exactly the readings
\* whose timestamp is strictly greater than now minus the range; for the
\* same data and now the results are nested, 1h within 6h within 12h within
\* 24h; an unrecognised range gives what 6h gives.
TimeRangeFilterIsExact ==
  /\ Len(filteredData) = Cardinality(InRange(timeRange))
  /\ \A i \in InRange(timeRange) :
       filteredData[Cardinality({k \in InRange(timeRange) : k <= i})] = cData[i]
  /\ IsSubsequence(filterDataByTimeRange(cData, "1h", cNow),
                   filterDataByTimeRange(cData, "6h", cNow))
  /\ IsSubsequence(filterDataByTimeRange(cData, "6h", cNow),
                   filterDataByTimeRange(cData, "12h", cNow))
  /\ IsSubsequence(filterDataByTimeRange(cData, "12h", cNow),
                   filterDataByTimeRange(cData, "24h", cNow))
  /\ timeRange \notin TabValues =>
       filteredData = filterDataByTimeRange(cData, "6h", cNow)

\* an unrecognised range on three readings: one exactly twelve hours old,
\* which only 24h keeps, one exactly six hours old, which 6h drops and 12h
\* keeps, and one inside every window
FilteredOnTheEdge ==
  /\ timeRange = "7d"
  /\ Len(cData) = 3
  /\ cData[1].timestamp = Int2Num(cNow - 12 * 3600000)
  /\ cData[2].timestamp = Int2Num(cNow - 6 * 3600000)
  /\ cData[3].timestamp = Int2Num(cNow - 30 * 60000)
  /\ filteredData = <<cData[3]>>
  /\ filterDataByTimeRange(cData, "12h", cNow) = <<cData[2], cData[3]>>
  /\ filterDataByTimeRange(cData, "24h", cNow) = cData

====
